---- MODULE Spec2Model ----
(***************************************************************************)
(* Model of the ethtool netlink request engine (net/ethtool/netlink.c),    *)
(* the link settings handler (net/ethtool/settings.c) and the device       *)
(* parameters handler (the four-category params.c).                        *)
(*                                                                         *)
(* A message is a function from the names of the attributes it holds to    *)
(* their payloads; a nested attribute's payload is again such a function.  *)
(* An info mask is the set of its category bits.  A device is its ifindex; *)
(* NULL is the null device pointer.                                        *)
(***************************************************************************)
EXTENDS Integers, Sequences, FiniteSets, TLC

\* ------------------------------------------------------------------ bounds
\* requests that run concurrently
NReq == 2
\* devices in the registry
NDev == 2
\* attribute and device values range over 0..MaxVal
MaxVal == 1
\* buckets of the device index hash
NETDEV_HASHENTRIES == 2
\* room of one dump buffer, in attributes, beyond the largest single reply
MaxRoom == 3

Reqs == 1..NReq
Devs == 1..NDev
Vals == 0..MaxVal
NULL == 0

\* ------------------------------------------------------------ error codes
EIO == -5
ENOMEM == -12
EBUSY == -16
ENODEV == -19
EINVAL == -22
EMSGSIZE == -90
EOPNOTSUPP == -95

\* ----------------------------------------------------------------- helpers
Has(tb, a) == a \in DOMAIN tb

Restrict(f, S) == [x \in S |-> f[x]]

Bool(v) == IF v # 0 THEN 1 ELSE 0

\* nla_parse()/nla_parse_nested() against a policy: an attribute the policy
\* marks NLA_REJECT fails the parse; every other attribute lands in tb[].
nla_parse(nest, rejected) ==
  IF DOMAIN nest \cap rejected # {} THEN EINVAL ELSE 0

\* ethnl_update_u32()/ethnl_update_u8(): the destination after the call; the
\* call reports a modification exactly when the value changed.
ethnl_update_u32(dst, tb, a) ==
  IF Has(tb, a) THEN tb[a] ELSE dst

\* ethnl_update_bool32(): compares and stores the attribute as a boolean.
ethnl_update_bool32(dst, tb, a) ==
  IF Has(tb, a) /\ Bool(tb[a]) # Bool(dst) THEN Bool(tb[a]) ELSE dst

\* ethnl_update_bitfield32(): bits of the selector take the attribute's value.
ethnl_update_bitfield32(dst, tb, a) ==
  IF Has(tb, a)
  THEN (dst \ tb[a].selector) \cup (tb[a].value \cap tb[a].selector)
  ELSE dst

\* ethnl_update_binary(): the attribute's payload replaces the destination.
ethnl_update_binary(dst, tb, a) ==
  IF Has(tb, a) THEN tb[a] ELSE dst

\* Result of an update helper: return value, the device's driver state after
\* it, and the driver set calls it made.
Res(ret, h, calls) == [ret |-> ret, h |-> h, calls |-> calls]

\* A driver set callback of struct ethtool_ops: a failing callback leaves the
\* device as it was, a successful one stores the whole structure.
ethtool_ops_set(p, h, op, field, data) ==
  IF op \in p.failing
  THEN [ret |-> EIO, h |-> h]
  ELSE [ret |-> 0, h |-> [h EXCEPT ![field] = data]]

\* ethnl_before_ops(): the driver's begin() result.
ethnl_before_ops(p) == p.begin

\* ------------------------------------------------------ device parameters
coalesce_u32 ==
  {"COALESCE_RX_USECS", "COALESCE_RX_MAXFRM", "COALESCE_RX_USECS_IRQ",
   "COALESCE_RX_MAXFRM_IRQ", "COALESCE_RX_USECS_LOW", "COALESCE_RX_MAXFRM_LOW",
   "COALESCE_RX_USECS_HIGH", "COALESCE_RX_MAXFRM_HIGH", "COALESCE_TX_USECS",
   "COALESCE_TX_MAXFRM", "COALESCE_TX_USECS_IRQ", "COALESCE_TX_MAXFRM_IRQ",
   "COALESCE_TX_USECS_LOW", "COALESCE_TX_MAXFRM_LOW", "COALESCE_TX_USECS_HIGH",
   "COALESCE_TX_MAXFRM_HIGH", "COALESCE_PKT_RATE_LOW", "COALESCE_PKT_RATE_HIGH",
   "COALESCE_RATE_SAMPLE_INTERVAL", "COALESCE_STATS_BLOCK_USECS"}

coalesce_bool ==
  {"COALESCE_RX_USE_ADAPTIVE", "COALESCE_TX_USE_ADAPTIVE"}

\* attributes coalesce_policy rejects
coalesce_policy == {"COALESCE_UNSPEC"}

update_coalesce(p, h, msg) ==
  IF ~Has(msg, "PARAMS_COALESCE") THEN Res(0, h, <<>>)
  ELSE IF {"get_coalesce", "set_coalesce"} \cap p.missing # {}
  THEN Res(EOPNOTSUPP, h, <<>>)
  ELSE IF "get_coalesce" \in p.failing THEN Res(EIO, h, <<>>)
  ELSE IF nla_parse(msg["PARAMS_COALESCE"], coalesce_policy) < 0
  THEN Res(EINVAL, h, <<>>)
  ELSE
    LET tb == msg["PARAMS_COALESCE"]
        data == [f \in DOMAIN h.coalesce |->
                   IF f \in coalesce_bool
                   THEN ethnl_update_bool32(h.coalesce[f], tb, f)
                   ELSE ethnl_update_u32(h.coalesce[f], tb, f)]
        mod == data # h.coalesce
        set == ethtool_ops_set(p, h, "set_coalesce", "coalesce", data)
    IN IF ~mod THEN Res(0, h, <<>>)
       ELSE Res(IF set.ret < 0 THEN set.ret ELSE 1, set.h,
                <<[op |-> "set_coalesce", data |-> data]>>)

\* attributes ring_policy rejects
ring_policy ==
  {"RING_UNSPEC", "RING_RX_MAX_PENDING", "RING_RX_MINI_MAX_PENDING",
   "RING_RX_JUMBO_MAX_PENDING", "RING_TX_MAX_PENDING"}

\* The chain that picks err_attr: the attribute of the first field over its
\* maximum, which is NULL (FALSE here) when the request did not hold it.
ring_err_attr(data, tb) ==
  IF data.rx_pending > data.rx_max_pending THEN Has(tb, "RING_RX_PENDING")
  ELSE IF data.rx_mini_pending > data.rx_mini_max_pending
  THEN Has(tb, "RING_RX_MINI_PENDING")
  ELSE IF data.rx_jumbo_pending > data.rx_jumbo_max_pending
  THEN Has(tb, "RING_RX_JUMBO_PENDING")
  ELSE IF data.tx_pending > data.tx_max_pending
  THEN Has(tb, "RING_TX_PENDING")
  ELSE FALSE

update_ring(p, h, msg) ==
  IF ~Has(msg, "PARAMS_RING") THEN Res(0, h, <<>>)
  ELSE IF {"get_ringparam", "set_ringparam"} \cap p.missing # {}
  THEN Res(EOPNOTSUPP, h, <<>>)
  ELSE IF nla_parse(msg["PARAMS_RING"], ring_policy) < 0
  THEN Res(EINVAL, h, <<>>)
  ELSE
    LET tb == msg["PARAMS_RING"]
        data == [h.ring EXCEPT
                   !.rx_pending = ethnl_update_u32(@, tb, "RING_RX_PENDING"),
                   !.rx_mini_pending =
                      ethnl_update_u32(@, tb, "RING_RX_MINI_PENDING"),
                   !.rx_jumbo_pending =
                      ethnl_update_u32(@, tb, "RING_RX_JUMBO_PENDING"),
                   !.tx_pending = ethnl_update_u32(@, tb, "RING_TX_PENDING")]
        mod == data # h.ring
        set == ethtool_ops_set(p, h, "set_ringparam", "ring", data)
    IN IF ~mod THEN Res(0, h, <<>>)
       ELSE IF ring_err_attr(data, tb) THEN Res(EINVAL, h, <<>>)
       ELSE Res(IF set.ret < 0 THEN set.ret ELSE 1, set.h,
                <<[op |-> "set_ringparam", data |-> data]>>)

\* attributes pause_policy rejects
pause_policy == {"PAUSE_UNSPEC"}

MutUpdatePauseNoOpsCheck(p, h, msg) ==
  IF ~Has(msg, "PARAMS_PAUSE") THEN Res(0, h, <<>>)
  ELSE IF nla_parse(msg["PARAMS_PAUSE"], pause_policy) < 0
  THEN Res(EINVAL, h, <<>>)
  ELSE
    LET tb == msg["PARAMS_PAUSE"]
        data == [h.pause EXCEPT
                   !.autoneg = ethnl_update_u32(@, tb, "PAUSE_AUTONEG"),
                   !.rx_pause = ethnl_update_u32(@, tb, "PAUSE_RX"),
                   !.tx_pause = ethnl_update_u32(@, tb, "PAUSE_TX")]
        mod == data # h.pause
        set == ethtool_ops_set(p, h, "set_pauseparam", "pause", data)
    IN IF ~mod THEN Res(0, h, <<>>)
       ELSE Res(IF set.ret < 0 THEN set.ret ELSE 1, set.h,
                <<[op |-> "set_pauseparam", data |-> data]>>)

update_pause(p, h, msg) ==
  IF ~Has(msg, "PARAMS_PAUSE") THEN Res(0, h, <<>>)
  ELSE IF {"get_pauseparam", "set_pauseparam"} \cap p.missing # {}
  THEN Res(EOPNOTSUPP, h, <<>>)
  ELSE IF nla_parse(msg["PARAMS_PAUSE"], pause_policy) < 0
  THEN Res(EINVAL, h, <<>>)
  ELSE
    LET tb == msg["PARAMS_PAUSE"]
        data == [h.pause EXCEPT
                   !.autoneg = ethnl_update_u32(@, tb, "PAUSE_AUTONEG"),
                   !.rx_pause = ethnl_update_u32(@, tb, "PAUSE_RX"),
                   !.tx_pause = ethnl_update_u32(@, tb, "PAUSE_TX")]
        mod == data # h.pause
        set == ethtool_ops_set(p, h, "set_pauseparam", "pause", data)
    IN IF ~mod THEN Res(0, h, <<>>)
       ELSE Res(IF set.ret < 0 THEN set.ret ELSE 1, set.h,
                <<[op |-> "set_pauseparam", data |-> data]>>)

\* attributes channels_policy rejects
channels_policy ==
  {"CHANNELS_UNSPEC", "CHANNELS_MAX_RX", "CHANNELS_MAX_TX",
   "CHANNELS_MAX_OTHER", "CHANNELS_MAX_COMBINED"}

channels_err_attr(new, tb) ==
  IF new.rx_count > new.max_rx THEN Has(tb, "CHANNELS_RX_COUNT")
  ELSE IF new.tx_count > new.max_tx THEN Has(tb, "CHANNELS_TX_COUNT")
  ELSE IF new.other_count > new.max_other
  THEN Has(tb, "CHANNELS_OTHER_COUNT")
  ELSE IF new.combined_count > new.max_combined
  THEN Has(tb, "CHANNELS_COMBINED_COUNT")
  ELSE FALSE

update_channels(p, h, msg) ==
  IF ~Has(msg, "PARAMS_CHANNELS") THEN Res(0, h, <<>>)
  ELSE IF {"get_channels", "set_channels"} \cap p.missing # {}
  THEN Res(EOPNOTSUPP, h, <<>>)
  ELSE IF nla_parse(msg["PARAMS_CHANNELS"], channels_policy) < 0
  THEN Res(EINVAL, h, <<>>)
  ELSE
    LET tb == msg["PARAMS_CHANNELS"]
        old == h.channels
        new == [old EXCEPT
                  !.rx_count = ethnl_update_u32(@, tb, "CHANNELS_RX_COUNT"),
                  !.tx_count = ethnl_update_u32(@, tb, "CHANNELS_TX_COUNT"),
                  !.other_count =
                     ethnl_update_u32(@, tb, "CHANNELS_OTHER_COUNT"),
                  !.combined_count =
                     ethnl_update_u32(@, tb, "CHANNELS_COMBINED_COUNT")]
        mod == new # old
        set == ethtool_ops_set(p, h, "set_channels", "channels", new)
    IN IF ~mod THEN Res(0, h, <<>>)
       ELSE IF channels_err_attr(new, tb) THEN Res(EINVAL, h, <<>>)
       ELSE Res(IF set.ret < 0 THEN set.ret ELSE 1, set.h,
                <<[op |-> "set_channels", data |-> new]>>)

\* ------------------------------------------------------------ link settings
\* link_mode_params[]: the first entries of the table, bit index to nominal
\* speed and duplex; SPEED_UNKNOWN is -1, DUPLEX_UNKNOWN is 255.
link_mode_params ==
  [i \in 0..6 |->
     CASE i = 0 -> [speed |-> 10, duplex |-> 0]
       [] i = 1 -> [speed |-> 10, duplex |-> 1]
       [] i = 2 -> [speed |-> 100, duplex |-> 0]
       [] i = 3 -> [speed |-> 100, duplex |-> 1]
       [] i = 4 -> [speed |-> 1000, duplex |-> 0]
       [] i = 5 -> [speed |-> 1000, duplex |-> 1]
       [] OTHER -> [speed |-> -1, duplex |-> 255]]

\* attributes the SET policies reject
set_linkinfo_policy ==
  {"LINKINFO_UNSPEC", "LINKINFO_TP_MDIX", "LINKINFO_TRANSCEIVER"}

set_linkmodes_policy == {"LINKMODES_UNSPEC", "LINKMODES_PEER"}

set_wol_policy == {"WOL_UNSPEC"}

\* __ethtool_get_link_ksettings() through ethnl_get_link_ksettings()
ethnl_get_link_ksettings(p) ==
  IF "get_link_ksettings" \in p.missing THEN EOPNOTSUPP
  ELSE IF "get_link_ksettings" \in p.failing THEN EIO
  ELSE 0

\* __ethtool_get_wol() through ethnl_get_wol()
ethnl_get_wol(p) ==
  IF "get_wol" \in p.missing THEN EOPNOTSUPP
  ELSE IF "get_wol" \in p.failing THEN EIO
  ELSE 0

\* __ethtool_get_link(): the link state, or -EOPNOTSUPP without get_link
ethtool_get_link(p, h) ==
  IF "get_link" \in p.missing THEN EOPNOTSUPP ELSE h.link

MutAutoLinkModesIgnoresDuplex(ks, req_speed, req_duplex) ==
  [ks EXCEPT !.advertising =
     {i \in DOMAIN link_mode_params :
        IF link_mode_params[i].speed = -1
        THEN i \in ks.advertising
        ELSE /\ i \in ks.supported
             /\ (~req_speed \/ link_mode_params[i].speed = ks.speed)}]

\* auto_link_modes(): every bit with a known speed is set when supported and
\* matching the requested speed and duplex, and cleared otherwise
auto_link_modes(ks, req_speed, req_duplex) ==
  [ks EXCEPT !.advertising =
     {i \in DOMAIN link_mode_params :
        IF link_mode_params[i].speed = -1
        THEN i \in ks.advertising
        ELSE /\ i \in ks.supported
             /\ (~req_speed \/ link_mode_params[i].speed = ks.speed)
             /\ (~req_duplex \/ link_mode_params[i].duplex = ks.duplex)}]

update_linkinfo(ks, msg) ==
  IF ~Has(msg, "SETTINGS_LINK_INFO") THEN [ret |-> 0, ks |-> ks]
  ELSE IF nla_parse(msg["SETTINGS_LINK_INFO"], set_linkinfo_policy) < 0
  THEN [ret |-> EINVAL, ks |-> ks]
  ELSE
    LET tb == msg["SETTINGS_LINK_INFO"]
        new == [ks EXCEPT
                  !.port = ethnl_update_u32(@, tb, "LINKINFO_PORT"),
                  !.phy_address = ethnl_update_u32(@, tb, "LINKINFO_PHYADDR"),
                  !.eth_tp_mdix_ctrl =
                     ethnl_update_u32(@, tb, "LINKINFO_TP_MDIX_CTRL")]
    IN [ret |-> IF new # ks THEN 1 ELSE 0, ks |-> new]

\* ethnl_update_bitset() on a value/mask bitset attribute: a bitset that does
\* not decode sets the error and leaves the bitmap alone.
ethnl_update_bitset(bitmap, tb, a) ==
  IF ~Has(tb, a) THEN [ret |-> 0, bitmap |-> bitmap]
  ELSE IF tb[a].mask \cup tb[a].value \subseteq DOMAIN link_mode_params
  THEN [ret |-> 0,
        bitmap |-> (bitmap \ tb[a].mask) \cup (tb[a].value \cap tb[a].mask)]
  ELSE [ret |-> EINVAL, bitmap |-> bitmap]

update_link_modes(ks, msg) ==
  IF ~Has(msg, "SETTINGS_LINK_MODES") THEN [ret |-> 0, ks |-> ks]
  ELSE IF nla_parse(msg["SETTINGS_LINK_MODES"], set_linkmodes_policy) < 0
  THEN [ret |-> EINVAL, ks |-> ks]
  ELSE
    LET tb == msg["SETTINGS_LINK_MODES"]
        req_speed == Has(tb, "LINKMODES_SPEED")
        req_duplex == Has(tb, "LINKMODES_DUPLEX")
        bs == ethnl_update_bitset(ks.advertising, tb, "LINKMODES_OURS")
        k1 == [ks EXCEPT
                 !.autoneg = ethnl_update_u32(@, tb, "LINKMODES_AUTONEG"),
                 !.advertising = bs.bitmap]
        k2 == [k1 EXCEPT
                 !.speed = ethnl_update_u32(@, tb, "LINKMODES_SPEED"),
                 !.duplex = ethnl_update_u32(@, tb, "LINKMODES_DUPLEX")]
        auto == /\ ~Has(tb, "LINKMODES_OURS")
                /\ k2.autoneg # 0
                /\ (req_speed \/ req_duplex)
        k3 == IF auto THEN auto_link_modes(k2, req_speed, req_duplex) ELSE k2
        mod == \/ k1.autoneg # ks.autoneg
               \/ bs.bitmap # ks.advertising
               \/ k2.speed # ks.speed
               \/ k2.duplex # ks.duplex
               \/ k3.advertising # k2.advertising
    IN IF bs.ret < 0 THEN [ret |-> bs.ret, ks |-> k1]
       ELSE [ret |-> IF mod THEN 1 ELSE 0, ks |-> k3]

\* Result of a link settings update helper: as Res, with the categories it
\* adds to the notification mask, and whether the thread died calling a
\* callback the driver does not have (a null function pointer).
SRes(ret, h, calls, mask, oops) ==
  [ret |-> ret, h |-> h, calls |-> calls, mask |-> mask, oops |-> oops]

MutUpdateKsettingsSetPerNest(p, h, msg) ==
  LET li == update_linkinfo(h.ks, msg)
      lm == update_link_modes(li.ks, msg)
      c1 == IF li.ret > 0
            THEN <<[op |-> "set_link_ksettings", data |-> li.ks]>> ELSE <<>>
      h1 == IF li.ret > 0 THEN [h EXCEPT !.ks = li.ks] ELSE h
  IN IF ethnl_get_link_ksettings(p) < 0
     THEN SRes(ethnl_get_link_ksettings(p), h, <<>>, {}, FALSE)
     ELSE IF li.ret < 0 THEN SRes(li.ret, h, <<>>, {}, FALSE)
     ELSE IF lm.ret < 0 THEN SRes(lm.ret, h1, c1, {}, FALSE)
     ELSE IF lm.ret > 0
     THEN SRes(0, [h EXCEPT !.ks = lm.ks],
               c1 \o <<[op |-> "set_link_ksettings", data |-> lm.ks]>>,
               (IF li.ret > 0 THEN {"LINKINFO"} ELSE {}) \cup {"LINKMODES"},
               FALSE)
     ELSE SRes(0, h1, c1, IF li.ret > 0 THEN {"LINKINFO"} ELSE {}, FALSE)

ethnl_update_ksettings(p, h, msg) ==
  LET get == ethnl_get_link_ksettings(p)
      li == update_linkinfo(h.ks, msg)
      lm == update_link_modes(li.ks, msg)
      mod_mask == (IF li.ret > 0 THEN {"LINKINFO"} ELSE {}) \cup
                  (IF lm.ret > 0 THEN {"LINKMODES"} ELSE {})
      set == ethtool_ops_set(p, h, "set_link_ksettings", "ks", lm.ks)
      call == <<[op |-> "set_link_ksettings", data |-> lm.ks]>>
  IN IF get < 0 THEN SRes(get, h, <<>>, {}, FALSE)
     ELSE IF li.ret < 0 THEN SRes(li.ret, h, <<>>, {}, FALSE)
     ELSE IF lm.ret < 0 THEN SRes(lm.ret, h, <<>>, {}, FALSE)
     ELSE IF mod_mask = {} THEN SRes(0, h, <<>>, {}, FALSE)
     ELSE IF "set_link_ksettings" \in p.missing
     THEN SRes(0, h, call, {}, TRUE)
     ELSE IF set.ret < 0 THEN SRes(set.ret, h, call, {}, FALSE)
     ELSE SRes(0, set.h, call, mod_mask, FALSE)

MutUpdateWolAlwaysSets(p, h, msg) ==
  IF ~Has(msg, "SETTINGS_WOL") THEN SRes(0, h, <<>>, {}, FALSE)
  ELSE IF nla_parse(msg["SETTINGS_WOL"], set_wol_policy) < 0
  THEN SRes(EINVAL, h, <<>>, {}, FALSE)
  ELSE IF ethnl_get_wol(p) < 0 THEN SRes(ethnl_get_wol(p), h, <<>>, {}, FALSE)
  ELSE
    LET tb == msg["SETTINGS_WOL"]
        wolinfo == [h.wol EXCEPT
                      !.wolopts = ethnl_update_bitfield32(@, tb, "WOL_MODES"),
                      !.sopass = ethnl_update_binary(@, tb, "WOL_SOPASS")]
        set == ethtool_ops_set(p, h, "set_wol", "wol", wolinfo)
        call == <<[op |-> "set_wol", data |-> wolinfo]>>
    IN IF "set_wol" \in p.missing THEN SRes(0, h, call, {}, TRUE)
       ELSE IF set.ret < 0 THEN SRes(set.ret, h, call, {}, FALSE)
       ELSE SRes(1, set.h, call, {"WOL"}, FALSE)

update_wol(p, h, msg) ==
  IF ~Has(msg, "SETTINGS_WOL") THEN SRes(0, h, <<>>, {}, FALSE)
  ELSE IF nla_parse(msg["SETTINGS_WOL"], set_wol_policy) < 0
  THEN SRes(EINVAL, h, <<>>, {}, FALSE)
  ELSE IF ethnl_get_wol(p) < 0 THEN SRes(ethnl_get_wol(p), h, <<>>, {}, FALSE)
  ELSE
    LET tb == msg["SETTINGS_WOL"]
        wolinfo == [h.wol EXCEPT
                      !.wolopts = ethnl_update_bitfield32(@, tb, "WOL_MODES"),
                      !.sopass = ethnl_update_binary(@, tb, "WOL_SOPASS")]
        mod == wolinfo # h.wol
        set == ethtool_ops_set(p, h, "set_wol", "wol", wolinfo)
        call == <<[op |-> "set_wol", data |-> wolinfo]>>
    IN IF ~mod THEN SRes(0, h, <<>>, {}, FALSE)
       ELSE IF "set_wol" \in p.missing THEN SRes(0, h, call, {}, TRUE)
       ELSE IF set.ret < 0 THEN SRes(set.ret, h, call, {}, FALSE)
       ELSE SRes(1, set.h, call, {"WOL"}, FALSE)

\* ------------------------------------------------------------------- state
VARIABLES
  refcnt,           \* [Devs -> Nat]: the devices' reference counts
  present,          \* [Devs -> BOOLEAN]: netif_device_present()
  prof,             \* [Devs -> ...]: which ethtool_ops exist, which fail
  hw,               \* [Devs -> ...]: the state the drivers report and store
  dev_index_head,   \* [0..NETDEV_HASHENTRIES-1 -> Seq(Devs)]: index hash
  rtnl,             \* owner of the RTNL lock, 0 when free
  req,              \* [Reqs -> ...]: the requests in progress
  bcast,            \* messages multicast to the monitor group
  warned            \* the WARN_ONCE()s that fired

vars ==
  <<refcnt, present, prof, hw, dev_index_head, rtnl, req, bcast, warned>>

ZeroKs ==
  [port |-> 0, phy_address |-> 0, eth_tp_mdix |-> 0, eth_tp_mdix_ctrl |-> 0,
   transceiver |-> 0, autoneg |-> 0, speed |-> 0, duplex |-> 0,
   supported |-> {}, advertising |-> {}, lp_advertising |-> {}]

ZeroWol == [supported |-> {}, wolopts |-> {}, sopass |-> 0]

ZeroCoalesce == [f \in coalesce_u32 \cup coalesce_bool |-> 0]

ZeroRing ==
  [rx_max_pending |-> 0, rx_mini_max_pending |-> 0, rx_jumbo_max_pending |-> 0,
   tx_max_pending |-> 0, rx_pending |-> 0, rx_mini_pending |-> 0,
   rx_jumbo_pending |-> 0, tx_pending |-> 0]

ZeroPause == [autoneg |-> 0, rx_pause |-> 0, tx_pause |-> 0]

ZeroChannels ==
  [max_rx |-> 0, max_tx |-> 0, max_other |-> 0, max_combined |-> 0,
   rx_count |-> 0, tx_count |-> 0, other_count |-> 0, combined_count |-> 0]

\* ------------------------------------------------------------ device lookup
\* attributes dev_policy rejects
dev_policy == {"DEV_UNSPEC"}

\* dev_get_by_index()/dev_get_by_name(): device d has ifindex d and name d.
dev_get_by_index(idx) == IF idx \in Devs THEN idx ELSE NULL

dev_get_by_name(name) == IF name \in Devs THEN name ELSE NULL

MutDevHoldTwice(rc, d) == [rc EXCEPT ![d] = @ + 2]

dev_hold(rc, d) == [rc EXCEPT ![d] = @ + 1]

MutDevPutNothing(rc, d) == rc

dev_put(rc, d) == [rc EXCEPT ![d] = @ - 1]

DevRes(ret, dev, rc) == [ret |-> ret, dev |-> dev, rc |-> rc, extack |-> ""]

\* an ERR_PTR() return of ethnl_dev_get() with the message it left in extack
DevErr(ret, extack, rc) ==
  [ret |-> ret, dev |-> NULL, rc |-> rc, extack |-> extack]

\* ethnl_dev_get(): the device or the error, and the reference counts after.
ethnl_dev_get(rc, pres, msg, attr) ==
  IF ~Has(msg, attr)
  THEN DevErr(EINVAL, "device identification missing", rc)
  ELSE IF nla_parse(msg[attr], dev_policy) < 0
  THEN DevErr(EINVAL, "nla_parse_nested", rc)
  ELSE
    LET tb == msg[attr]
        byidx == dev_get_by_index(tb["DEV_INDEX"])
        byname == dev_get_by_name(tb["DEV_NAME"])
    IN IF Has(tb, "DEV_INDEX")
       THEN IF byidx = NULL
            THEN DevErr(ENODEV, "no device matches ifindex", rc)
            ELSE IF Has(tb, "DEV_NAME") /\ tb["DEV_NAME"] # byidx
            THEN DevErr(ENODEV, "ifindex and name do not match",
                        dev_put(dev_hold(rc, byidx), byidx))
            ELSE DevRes(0, byidx, dev_hold(rc, byidx))
       ELSE IF Has(tb, "DEV_NAME")
       THEN IF byname = NULL
            THEN DevErr(ENODEV, "no device matches name", rc)
            ELSE IF ~pres[byname]
            THEN DevErr(ENODEV, "device not present",
                        dev_put(dev_hold(rc, byname), byname))
            ELSE DevRes(0, byname, dev_hold(rc, byname))
       ELSE DevErr(EINVAL, "neither ifindex nor name specified", rc)

\* --------------------------------------------------------- GET callbacks
ETHTOOL_IM_SETTINGS_ALL == {"LINKINFO", "LINKMODES", "LINKSTATE", "WOL"}

ETHTOOL_IM_PARAMS_ALL == {"COALESCE", "RING", "PAUSE", "CHANNELS"}

\* attributes get_settings_policy / get_params_policy reject
get_settings_policy ==
  {"SETTINGS_UNSPEC", "SETTINGS_LINK_INFO", "SETTINGS_LINK_MODES",
   "SETTINGS_LINK_STATE", "SETTINGS_WOL"}

get_params_policy ==
  {"PARAMS_UNSPEC", "PARAMS_COALESCE", "PARAMS_RING", "PARAMS_PAUSE",
   "PARAMS_CHANNELS"}

\* ethnl_alloc_get_data(): the request part zeroed; ethnl_init_reply_data()
\* zeroes the reply part and sets its device.
ZeroReqInfo ==
  [dev |-> NULL, req_mask |-> {}, compact |-> FALSE, privileged |-> FALSE]

ZeroReplyData(dev) ==
  [dev |-> dev, info_mask |-> {}, ksettings |-> ZeroKs, wolinfo |-> ZeroWol,
   link |-> 0, lpm_empty |-> FALSE, coalesce |-> ZeroCoalesce,
   ring |-> ZeroRing, pause |-> ZeroPause, channels |-> ZeroChannels,
   partial |-> FALSE]

\* ethnl_dev_get() was not called
NoDevGet == [ret |-> 0, dev |-> NULL, extack |-> "not called"]

\* what a call of ethnl_dev_get() returned, without the reference counts
DevGot(got) == [ret |-> got.ret, dev |-> got.dev, extack |-> got.extack]

\* parse_settings() and parse_params(): attrs names the command's attributes.
parse_request(ops, rc, pres, msg, privileged) ==
  LET pfx == IF ops = "settings" THEN "SETTINGS" ELSE "PARAMS"
      policy == IF ops = "settings" THEN get_settings_policy
                ELSE get_params_policy
      all == IF ops = "settings" THEN ETHTOOL_IM_SETTINGS_ALL
             ELSE ETHTOOL_IM_PARAMS_ALL
      a_dev == IF ops = "settings" THEN "SETTINGS_DEV" ELSE "PARAMS_DEV"
      a_mask == IF ops = "settings" THEN "SETTINGS_INFOMASK"
                ELSE "PARAMS_INFOMASK"
      a_compact == IF ops = "settings" THEN "SETTINGS_COMPACT"
                   ELSE "PARAMS_COMPACT"
      got == ethnl_dev_get(rc, pres, msg, a_dev)
      ri0 == [ZeroReqInfo EXCEPT
                !.privileged = (ops = "settings") /\ privileged]
      mask == IF Has(msg, a_mask) THEN msg[a_mask] ELSE {}
  IN IF nla_parse(msg, policy) < 0
     THEN [ret |-> EINVAL, req_info |-> ri0, rc |-> rc, got |-> NoDevGet]
     ELSE IF Has(msg, a_dev) /\ got.ret < 0
     THEN [ret |-> got.ret, req_info |-> ri0, rc |-> got.rc,
           got |-> DevGot(got)]
     ELSE [ret |-> 0,
           got |-> IF Has(msg, a_dev) THEN DevGot(got) ELSE NoDevGet,
           req_info |-> [ri0 EXCEPT
              !.dev = IF Has(msg, a_dev) THEN got.dev ELSE NULL,
              !.req_mask = IF mask = {} THEN all ELSE mask,
              !.compact = Has(msg, a_compact)],
           rc |-> IF Has(msg, a_dev) THEN got.rc ELSE rc]

MutPrepareSettingsKeepsWol(req_info, rd, p, h) ==
  LET req_mask == req_info.req_mask
      want_ks == req_mask \cap {"LINKINFO", "LINKMODES"} # {}
      get == ethnl_get_link_ksettings(p)
      m1 == IF want_ks /\ get < 0
            THEN req_mask \ {"LINKINFO", "LINKMODES"} ELSE req_mask
      ks == IF want_ks /\ get >= 0 THEN h.ks ELSE rd.ksettings
      m2 == m1
  IN IF ethnl_before_ops(p) < 0
     THEN [ret |-> ethnl_before_ops(p),
           rd |-> [rd EXCEPT !.lpm_empty = TRUE, !.link = EOPNOTSUPP]]
     ELSE [ret |-> 0,
           rd |-> [rd EXCEPT
             !.ksettings = ks,
             !.lpm_empty = IF "LINKMODES" \in m1
                           THEN ks.lp_advertising = {} ELSE TRUE,
             !.link = IF "LINKSTATE" \in m1 THEN ethtool_get_link(p, h)
                      ELSE EOPNOTSUPP,
             !.wolinfo = IF "WOL" \in m2 THEN h.wol ELSE @,
             !.info_mask = m2,
             !.partial = (req_mask \ m2 # {})]]

MutPrepareSettingsAborts(req_info, rd, p, h) ==
  LET req_mask == req_info.req_mask
      want_ks == req_mask \cap {"LINKINFO", "LINKMODES"} # {}
      get == ethnl_get_link_ksettings(p)
      m1 == IF want_ks /\ get < 0
            THEN req_mask \ {"LINKINFO", "LINKMODES"} ELSE req_mask
      ks == IF want_ks /\ get >= 0 THEN h.ks ELSE rd.ksettings
      m2 == IF "WOL" \in m1 /\ ethnl_get_wol(p) < 0 THEN m1 \ {"WOL"} ELSE m1
  IN IF ethnl_before_ops(p) < 0
     THEN [ret |-> ethnl_before_ops(p),
           rd |-> [rd EXCEPT !.lpm_empty = TRUE, !.link = EOPNOTSUPP]]
     ELSE IF want_ks /\ get < 0
     THEN [ret |-> get,
           rd |-> [rd EXCEPT !.lpm_empty = TRUE, !.link = EOPNOTSUPP]]
     ELSE [ret |-> 0,
           rd |-> [rd EXCEPT
             !.ksettings = ks,
             !.lpm_empty = IF "LINKMODES" \in m1
                           THEN ks.lp_advertising = {} ELSE TRUE,
             !.link = IF "LINKSTATE" \in m1 THEN ethtool_get_link(p, h)
                      ELSE EOPNOTSUPP,
             !.wolinfo = IF "WOL" \in m2 THEN h.wol ELSE @,
             !.info_mask = m2,
             !.partial = (req_mask \ m2 # {})]]

prepare_settings(req_info, rd, p, h) ==
  LET req_mask == req_info.req_mask
      want_ks == req_mask \cap {"LINKINFO", "LINKMODES"} # {}
      get == ethnl_get_link_ksettings(p)
      m1 == IF want_ks /\ get < 0
            THEN req_mask \ {"LINKINFO", "LINKMODES"} ELSE req_mask
      ks == IF want_ks /\ get >= 0 THEN h.ks ELSE rd.ksettings
      m2 == IF "WOL" \in m1 /\ ethnl_get_wol(p) < 0 THEN m1 \ {"WOL"} ELSE m1
  IN IF ethnl_before_ops(p) < 0
     THEN [ret |-> ethnl_before_ops(p),
           rd |-> [rd EXCEPT !.lpm_empty = TRUE, !.link = EOPNOTSUPP]]
     ELSE [ret |-> 0,
           rd |-> [rd EXCEPT
             !.ksettings = ks,
             !.lpm_empty = IF "LINKMODES" \in m1
                           THEN ks.lp_advertising = {} ELSE TRUE,
             !.link = IF "LINKSTATE" \in m1 THEN ethtool_get_link(p, h)
                      ELSE EOPNOTSUPP,
             !.wolinfo = IF "WOL" \in m2 THEN h.wol ELSE @,
             !.info_mask = m2,
             !.partial = (req_mask \ m2 # {})]]

\* ethnl_get_coalesce/ring/pause/channels(): the callback's result
ethnl_get_params(p, op) ==
  IF op \in p.missing THEN EOPNOTSUPP
  ELSE IF op = "get_coalesce" /\ op \in p.failing THEN EIO
  ELSE 0

MutPrepareParamsKeepsChannels(req_info, rd, p, h) ==
  LET req_mask == req_info.req_mask
      got(c, op) == c \in req_mask /\ ethnl_get_params(p, op) >= 0
      m == {c \in req_mask :
              \/ c = "COALESCE" /\ got(c, "get_coalesce")
              \/ c = "RING" /\ got(c, "get_ringparam")
              \/ c = "PAUSE" /\ got(c, "get_pauseparam")
              \/ c = "CHANNELS"}
  IN IF ethnl_before_ops(p) < 0
     THEN [ret |-> ethnl_before_ops(p), rd |-> rd]
     ELSE [ret |-> 0,
           rd |-> [rd EXCEPT
             !.coalesce = IF "COALESCE" \in m THEN h.coalesce ELSE @,
             !.ring = IF "RING" \in m THEN h.ring ELSE @,
             !.pause = IF "PAUSE" \in m THEN h.pause ELSE @,
             !.channels = IF "CHANNELS" \in m THEN h.channels ELSE @,
             !.info_mask = m,
             !.partial = (req_mask \ m # {})]]

prepare_params(req_info, rd, p, h) ==
  LET req_mask == req_info.req_mask
      got(c, op) == c \in req_mask /\ ethnl_get_params(p, op) >= 0
      m == {c \in req_mask :
              \/ c = "COALESCE" /\ got(c, "get_coalesce")
              \/ c = "RING" /\ got(c, "get_ringparam")
              \/ c = "PAUSE" /\ got(c, "get_pauseparam")
              \/ c = "CHANNELS" /\ got(c, "get_channels")}
  IN IF ethnl_before_ops(p) < 0
     THEN [ret |-> ethnl_before_ops(p), rd |-> rd]
     ELSE [ret |-> 0,
           rd |-> [rd EXCEPT
             !.coalesce = IF "COALESCE" \in m THEN h.coalesce ELSE @,
             !.ring = IF "RING" \in m THEN h.ring ELSE @,
             !.pause = IF "PAUSE" \in m THEN h.pause ELSE @,
             !.channels = IF "CHANNELS" \in m THEN h.channels ELSE @,
             !.info_mask = m,
             !.partial = (req_mask \ m # {})]]

prepare_data(ops, req_info, rd, p, h) ==
  IF ops = "settings" THEN prepare_settings(req_info, rd, p, h)
  ELSE prepare_params(req_info, rd, p, h)

\* A bitset as ethnl_bitset32_size() sizes it and ethnl_put_bitset32() writes
\* it: the value, the mask ("NULL" for none) and the encoding flags.
ethnl_bitset32(val, mask, flags) ==
  [value |-> val, mask |-> mask, flags |-> flags]

\* flags = compact ? ETHNL_BITSET_COMPACT : 0
bitset_flags(compact) == IF compact THEN {"ETHNL_BITSET_COMPACT"} ELSE {}

\* the flags link_modes_size() passes to ethnl_bitset32_size(): flags for
\* the advertised modes, flags & ETHNL_BITSET_LIST for the peer's
link_modes_size_flags(compact) ==
  [ours |-> bitset_flags(compact),
   peer |-> bitset_flags(compact) \cap {"ETHNL_BITSET_LIST"}]

\* the flags fill_link_modes() passes to ethnl_put_bitset32(): flags for the
\* advertised modes, flags | ETHNL_BITSET_LIST for the peer's
fill_link_modes_flags(compact) ==
  [ours |-> bitset_flags(compact),
   peer |-> bitset_flags(compact) \cup {"ETHNL_BITSET_LIST"}]

MutFillWolinfoAlwaysSopass(wolinfo, privileged) ==
  [WOL_MODES |-> [value |-> wolinfo.wolopts, selector |-> wolinfo.supported],
   WOL_SOPASS |-> wolinfo.sopass]

\* fill_wolinfo(): the modes, and the password for a privileged requester
fill_wolinfo(wolinfo, privileged) ==
  LET wol0 == [WOL_MODES |-> [value |-> wolinfo.wolopts,
                              selector |-> wolinfo.supported],
               WOL_SOPASS |-> wolinfo.sopass]
  IN IF privileged THEN wol0 ELSE Restrict(wol0, {"WOL_MODES"})

\* fill_settings(): the nests written, one per category of the info mask
fill_settings(req_info, rd) ==
  LET link_info ==
        [LINKINFO_PORT |-> rd.ksettings.port,
         LINKINFO_PHYADDR |-> rd.ksettings.phy_address,
         LINKINFO_TP_MDIX |-> rd.ksettings.eth_tp_mdix,
         LINKINFO_TP_MDIX_CTRL |-> rd.ksettings.eth_tp_mdix_ctrl,
         LINKINFO_TRANSCEIVER |-> rd.ksettings.transceiver]
      modes0 ==
        [LINKMODES_AUTONEG |-> rd.ksettings.autoneg,
         LINKMODES_OURS |-> ethnl_bitset32(rd.ksettings.advertising,
                                           rd.ksettings.supported,
                                           fill_link_modes_flags(
                                             req_info.compact).ours),
         LINKMODES_PEER |-> ethnl_bitset32(rd.ksettings.lp_advertising,
                                           "NULL",
                                           fill_link_modes_flags(
                                             req_info.compact).peer),
         LINKMODES_SPEED |-> rd.ksettings.speed,
         LINKMODES_DUPLEX |-> rd.ksettings.duplex]
      link_modes ==
        IF rd.lpm_empty
        THEN Restrict(modes0, DOMAIN modes0 \ {"LINKMODES_PEER"}) ELSE modes0
      state0 == [LINKSTATE_LINK |-> Bool(rd.link)]
      link_state == IF rd.link >= 0 THEN state0 ELSE Restrict(state0, {})
      full == [LINKINFO |-> link_info, LINKMODES |-> link_modes,
               LINKSTATE |-> link_state,
               WOL |-> fill_wolinfo(rd.wolinfo, req_info.privileged)]
  IN Restrict(full, rd.info_mask \cap ETHTOOL_IM_SETTINGS_ALL)

\* fill_params(): the nests written, one per category of the info mask
fill_params(req_info, rd) ==
  LET full == [COALESCE |-> rd.coalesce, RING |-> rd.ring,
               PAUSE |-> rd.pause, CHANNELS |-> rd.channels]
  IN Restrict(full, rd.info_mask \cap ETHTOOL_IM_PARAMS_ALL)

MutFillReplyDropsLinkState(ops, req_info, rd) ==
  LET rep == IF ops = "settings" THEN fill_settings(req_info, rd)
             ELSE fill_params(req_info, rd)
  IN IF rd.link < 0 THEN Restrict(rep, DOMAIN rep \ {"LINKSTATE"}) ELSE rep

fill_reply(ops, req_info, rd) ==
  IF ops = "settings" THEN fill_settings(req_info, rd)
  ELSE fill_params(req_info, rd)

\* ------------------------------------------------------- reply lengths
\* nla_total_size(): NLA_ALIGN(NLA_HDRLEN + payload)
NLA_HDRLEN == 4

NLA_ALIGN(n) == ((n + 3) \div 4) * 4

nla_total_size(payload) == NLA_ALIGN(NLA_HDRLEN + payload)

IFNAMSIZ == 16

SOPASS_MAX == 6

\* sizeof(struct nla_bitfield32)
SIZEOF_BITFIELD32 == 8

\* A length is the bytes of the fixed-width attributes and nest headers
\* and, apart, the bitsets, whose encoded length is ethnl_bitset32_size()'s.
Len0 == [bytes |-> 0, bitsets |-> <<>>]

LenOf(bytes) == [bytes |-> bytes, bitsets |-> <<>>]

LenAdd(a, b) ==
  [bytes |-> a.bytes + b.bytes, bitsets |-> a.bitsets @@ b.bitsets]

\* dev_ident_size(): an index and a name of IFNAMSIZ bytes in a nest
dev_ident_size ==
  nla_total_size(nla_total_size(4) + nla_total_size(IFNAMSIZ))

\* strlen(dev->name): device 1 has a short name, the others the longest
dev_name_len(d) == IF d = 1 THEN 4 ELSE IFNAMSIZ - 1

\* ethnl_fill_dev(): the nest with the index and the name string
ethnl_fill_dev(dev) ==
  nla_total_size(nla_total_size(4) + nla_total_size(dev_name_len(dev) + 1))

MutCoalesceSizeOneShort ==
  nla_total_size(19 * nla_total_size(4) + 2 * nla_total_size(1))

coalesce_size ==
  nla_total_size(20 * nla_total_size(4) + 2 * nla_total_size(1))

ring_size == nla_total_size(8 * nla_total_size(4))

pause_size == nla_total_size(3 * nla_total_size(1))

channels_size == nla_total_size(8 * nla_total_size(4))

params_size(rd) ==
  LenOf(dev_ident_size
        + (IF "COALESCE" \in rd.info_mask THEN coalesce_size ELSE 0)
        + (IF "RING" \in rd.info_mask THEN ring_size ELSE 0)
        + (IF "PAUSE" \in rd.info_mask THEN pause_size ELSE 0)
        + (IF "CHANNELS" \in rd.info_mask THEN channels_size ELSE 0))

link_info_size ==
  nla_total_size(5 * nla_total_size(1) + nla_total_size(SIZEOF_BITFIELD32))

link_modes_size(ksettings, compact) ==
  [bytes |-> nla_total_size(nla_total_size(4) + 2 * nla_total_size(1)),
   bitsets |->
     [LINKMODES_OURS |-> ethnl_bitset32(ksettings.advertising,
                                        ksettings.supported,
                                        link_modes_size_flags(compact).ours),
      LINKMODES_PEER |-> ethnl_bitset32(ksettings.lp_advertising, "NULL",
                                        link_modes_size_flags(compact).peer)]]

link_state_size(link) ==
  IF link < 0 THEN nla_total_size(0) ELSE nla_total_size(nla_total_size(1))

wol_size ==
  nla_total_size(nla_total_size(SIZEOF_BITFIELD32)
                 + nla_total_size(SOPASS_MAX))

settings_size(req_info, rd) ==
  LenAdd(LenOf(dev_ident_size
               + (IF "LINKINFO" \in rd.info_mask THEN link_info_size ELSE 0)
               + (IF "LINKSTATE" \in rd.info_mask
                  THEN link_state_size(rd.link) ELSE 0)
               + (IF "WOL" \in rd.info_mask THEN wol_size ELSE 0)),
         IF "LINKMODES" \in rd.info_mask
         THEN link_modes_size(rd.ksettings, req_info.compact) ELSE Len0)

reply_size(ops, req_info, rd) ==
  IF ops = "settings" THEN settings_size(req_info, rd) ELSE params_size(rd)

\* the attributes of a nest that hold a bitset
BitsetAttrs == {"LINKMODES_OURS", "LINKMODES_PEER"}

\* payload bytes of the attribute a that fill_*() puts in the nest of
\* category cat: nla_put_u8(), nla_put_u32(), nla_put_bitfield32(), nla_put()
put_width(cat, a) ==
  CASE cat = "COALESCE" -> IF a \in coalesce_bool THEN 1 ELSE 4
    [] cat \in {"RING", "CHANNELS"} -> 4
    [] cat = "LINKMODES" -> IF a = "LINKMODES_SPEED" THEN 4 ELSE 1
    [] cat = "WOL" -> IF a = "WOL_MODES" THEN SIZEOF_BITFIELD32
                      ELSE SOPASS_MAX
    [] OTHER -> 1

\* what nla_nest_start() .. nla_nest_end() wrote for one nest of a reply
nest_written(cat, nest) ==
  LET plain == DOMAIN nest \ BitsetAttrs
      n(w) == Cardinality({a \in plain : put_width(cat, a) = w})
  IN [bytes |-> NLA_HDRLEN
                + n(1) * nla_total_size(1) + n(4) * nla_total_size(4)
                + n(SOPASS_MAX) * nla_total_size(SOPASS_MAX)
                + n(SIZEOF_BITFIELD32) * nla_total_size(SIZEOF_BITFIELD32),
      bitsets |-> Restrict(nest, DOMAIN nest \cap BitsetAttrs)]

RECURSIVE reply_written_from(_, _)
reply_written_from(cats, reply) ==
  IF cats = <<>> THEN Len0
  ELSE LenAdd(IF Has(reply, Head(cats))
              THEN nest_written(Head(cats), reply[Head(cats)]) ELSE Len0,
              reply_written_from(Tail(cats), reply))

\* the payload ethnl_reply_init() and fill_reply() write: the device nest
\* and the nests of the reply
reply_written(dev, reply) ==
  LenAdd(LenOf(ethnl_fill_dev(dev)),
         reply_written_from(<<"LINKINFO", "LINKMODES", "LINKSTATE", "WOL",
                              "COALESCE", "RING", "PAUSE", "CHANNELS">>,
                            reply))

\* The reply fits the buffer reply_size() asked for: the fixed-width part
\* is no longer than sized and every bitset written was sized with the
\* same value, mask and flags, ethnl_bitset32_size() being the length
\* ethnl_put_bitset32() writes for the same arguments.
reply_fits(len, written) ==
  /\ written.bytes <= len.bytes
  /\ \A a \in DOMAIN written.bitsets :
       Has(len.bitsets, a) /\ len.bitsets[a] = written.bitsets[a]

\* struct get_request_ops: reply_cmd
reply_cmd(ops) ==
  IF ops = "settings" THEN "ETHNL_CMD_SET_SETTINGS" ELSE "ETHNL_CMD_SET_PARAMS"

\* ------------------------------------------------------------ notifications
\* get_requests[cmd - 1] of a notification command: the GET callbacks whose
\* reply_cmd it is.
notify_ops(cmd) ==
  IF cmd = "ETHNL_CMD_SET_SETTINGS" THEN "settings" ELSE "params"

\* ethnl_std_notify(): the GET pipeline for req_mask, then the multicast;
\* nothing is sent when prepare_data fails.
ethnl_std_notify(bc, p, h, dev, cmd, req_mask) ==
  LET ops == notify_ops(cmd)
      req_info == [ZeroReqInfo EXCEPT
                     !.dev = dev, !.req_mask = req_mask, !.compact = TRUE]
      prep == prepare_data(ops, req_info, ZeroReplyData(dev), p, h)
  IN IF prep.ret < 0 THEN bc
     ELSE Append(bc, [cmd |-> reply_cmd(ops), dev |-> dev,
                      payload |-> fill_reply(ops, req_info, prep.rd)])

\* ethnl_notify_handlers[]: the commands that have a notification handler
ethnl_notify_handlers == {}

\* ethtool_notify(): the handler of cmd if the table has one, a warning
\* otherwise.
ethtool_notify(bc, wn, p, h, dev, cmd, req_mask) ==
  IF cmd \in ethnl_notify_handlers
  THEN [bcast |-> ethnl_std_notify(bc, p, h, dev, cmd, req_mask),
        warned |-> wn]
  ELSE [bcast |-> bc, warned |-> wn \cup {"notification not implemented"}]

\* ------------------------------------------------------------ SET requests
\* attributes set_settings_policy / set_params_policy reject
set_settings_policy ==
  {"SETTINGS_UNSPEC", "SETTINGS_INFOMASK", "SETTINGS_LINK_STATE"}

set_params_policy == {"PARAMS_UNSPEC", "PARAMS_INFOMASK"}

SetKinds == {"set_settings", "set_params"}

set_policy(kind) ==
  IF kind = "set_settings" THEN set_settings_policy ELSE set_params_policy

set_dev_attr(kind) ==
  IF kind = "set_settings" THEN "SETTINGS_DEV" ELSE "PARAMS_DEV"

set_cmd(kind) ==
  IF kind = "set_settings" THEN "ETHNL_CMD_SET_SETTINGS"
  ELSE "ETHNL_CMD_SET_PARAMS"

\* the category updates of ethnl_set_settings() and ethnl_set_params()
set_steps(kind) == IF kind = "set_settings" THEN 2 ELSE 4

MutSetSettingsStepWolFirst(k, p, h, msg) ==
  IF k = 2
  THEN IF Has(msg, "SETTINGS_LINK_INFO") \/ Has(msg, "SETTINGS_LINK_MODES")
       THEN IF "get_link_ksettings" \in p.missing
            THEN SRes(EOPNOTSUPP, h, <<>>, {}, FALSE)
            ELSE ethnl_update_ksettings(p, h, msg)
       ELSE SRes(0, h, <<>>, {}, FALSE)
  ELSE update_wol(p, h, msg)

\* ethnl_set_settings(): the link settings block, then the wake-on-LAN block
set_settings_step(k, p, h, msg) ==
  IF k = 1
  THEN IF Has(msg, "SETTINGS_LINK_INFO") \/ Has(msg, "SETTINGS_LINK_MODES")
       THEN IF "get_link_ksettings" \in p.missing
            THEN SRes(EOPNOTSUPP, h, <<>>, {}, FALSE)
            ELSE ethnl_update_ksettings(p, h, msg)
       ELSE SRes(0, h, <<>>, {}, FALSE)
  ELSE update_wol(p, h, msg)

\* ethnl_set_params(): coalesce, ring, pause, channels, in this order
set_params_step(k, p, h, msg) ==
  LET r == CASE k = 1 -> update_coalesce(p, h, msg)
             [] k = 2 -> update_ring(p, h, msg)
             [] k = 3 -> update_pause(p, h, msg)
             [] OTHER -> update_channels(p, h, msg)
      cat == CASE k = 1 -> "COALESCE" [] k = 2 -> "RING"
               [] k = 3 -> "PAUSE" [] OTHER -> "CHANNELS"
  IN SRes(r.ret, r.h, r.calls, IF r.ret > 0 THEN {cat} ELSE {}, FALSE)

set_step(kind, k, p, h, msg) ==
  IF kind = "set_settings" THEN set_settings_step(k, p, h, msg)
  ELSE set_params_step(k, p, h, msg)

NoRefs == [d \in Devs |-> 0]

RefsAfter(refs, rc0, rc1) == [d \in Devs |-> refs[d] + rc1[d] - rc0[d]]

\* nlmsg_parse() and ethnl_dev_get(): up to rtnl_lock()
SetStart(r, kind, msgs) ==
  /\ req[r].pc = "idle"
  /\ \E msg \in msgs :
       LET got == ethnl_dev_get(refcnt, present, msg, set_dev_attr(kind))
           q == [req[r] EXCEPT !.kind = kind, !.msg = msg]
       IN IF nla_parse(msg, set_policy(kind)) < 0
          THEN /\ req' = [req EXCEPT ![r] =
                            [q EXCEPT !.ret = EINVAL, !.pc = "done"]]
               /\ UNCHANGED refcnt
          ELSE /\ refcnt' = got.rc
               /\ req' = [req EXCEPT ![r] =
                    [q EXCEPT
                       !.ret = got.ret, !.dev = got.dev,
                       !.got = DevGot(got),
                       !.refs = RefsAfter(@, refcnt, got.rc),
                       !.pc = IF got.ret < 0 THEN "done" ELSE "lock"]]
  /\ UNCHANGED <<present, prof, hw, dev_index_head, rtnl, bcast, warned>>

MutSetLockLate(r) ==
  /\ req[r].pc = "lock"
  /\ req[r].kind \in SetKinds
  /\ LET p == prof[req[r].dev]
         ret == ethnl_before_ops(p)
     IN req' = [req EXCEPT ![r] =
                  [@ EXCEPT !.h0 = hw[req[r].dev], !.ret = ret, !.step = 1,
                            !.pc = IF ret < 0 THEN "out_rtnl" ELSE "update"]]
  /\ UNCHANGED <<refcnt, present, prof, hw, dev_index_head, rtnl, bcast,
                 warned>>

\* rtnl_lock() and ethnl_before_ops()
SetLock(r) ==
  /\ req[r].pc = "lock"
  /\ req[r].kind \in SetKinds
  /\ rtnl = 0
  /\ rtnl' = r
  /\ LET p == prof[req[r].dev]
         ret == ethnl_before_ops(p)
     IN req' = [req EXCEPT ![r] =
                  [@ EXCEPT !.h0 = hw[req[r].dev], !.ret = ret, !.step = 1,
                            !.held = @ + 1,
                            !.pc = IF ret < 0 THEN "out_rtnl" ELSE "update"]]
  /\ UNCHANGED <<refcnt, present, prof, hw, dev_index_head, bcast, warned>>

\* one category update; an error jumps to out_ops, the last one sets ret = 0
SetUpdate(r) ==
  /\ req[r].pc = "update"
  /\ LET q == req[r]
         u == set_step(q.kind, q.step, prof[q.dev], hw[q.dev], q.msg)
         last == q.step = set_steps(q.kind)
     IN /\ hw' = [hw EXCEPT ![q.dev] = u.h]
        /\ req' = [req EXCEPT ![r] =
             [q EXCEPT
                !.calls = @ \o u.calls,
                !.req_mask = @ \cup u.mask,
                !.ret = IF u.ret < 0 THEN u.ret ELSE 0,
                !.step = IF u.ret < 0 \/ u.oops \/ last THEN @ ELSE @ + 1,
                !.pc = IF u.oops THEN "oops"
                       ELSE IF u.ret < 0 \/ last THEN "out_ops"
                       ELSE "update"]]
  /\ UNCHANGED <<refcnt, present, prof, dev_index_head, rtnl, bcast, warned>>

MutSetNotifyOnlyOnSuccess(r) ==
  /\ req[r].pc = "out_ops"
  /\ LET q == req[r]
         n == ethtool_notify(bcast, warned, prof[q.dev], hw[q.dev], q.dev,
                             set_cmd(q.kind), q.req_mask)
     IN IF q.req_mask # {} /\ q.ret >= 0
        THEN /\ bcast' = n.bcast /\ warned' = n.warned
             /\ req' = [req EXCEPT
                          ![r].pc = "out_rtnl",
                          ![r].notify = [called |-> TRUE, mask |-> q.req_mask,
                                         locked |-> rtnl = r]]
        ELSE /\ UNCHANGED <<bcast, warned>>
             /\ req' = [req EXCEPT ![r].pc = "out_rtnl"]
  /\ UNCHANGED <<refcnt, present, prof, hw, dev_index_head, rtnl>>

\* out_ops: ethtool_notify() when a category changed, ethnl_after_ops()
SetNotify(r) ==
  /\ req[r].pc = "out_ops"
  /\ LET q == req[r]
         n == ethtool_notify(bcast, warned, prof[q.dev], hw[q.dev], q.dev,
                             set_cmd(q.kind), q.req_mask)
     IN IF q.req_mask # {}
        THEN /\ bcast' = n.bcast /\ warned' = n.warned
             /\ req' = [req EXCEPT
                          ![r].pc = "out_rtnl",
                          ![r].notify = [called |-> TRUE, mask |-> q.req_mask,
                                         locked |-> rtnl = r]]
        ELSE /\ UNCHANGED <<bcast, warned>>
             /\ req' = [req EXCEPT ![r].pc = "out_rtnl"]
  /\ UNCHANGED <<refcnt, present, prof, hw, dev_index_head, rtnl>>

\* out_rtnl: rtnl_unlock(), dev_put(), return ret
SetUnlock(r) ==
  /\ req[r].pc = "out_rtnl"
  /\ rtnl' = 0
  /\ refcnt' = dev_put(refcnt, req[r].dev)
  /\ req' = [req EXCEPT ![r] =
               [@ EXCEPT !.refs = RefsAfter(@, refcnt, refcnt'),
                         !.h1 = hw[req[r].dev],
                         !.held = @ - 1,
                         !.pc = "done"]]
  /\ UNCHANGED <<present, prof, hw, dev_index_head, bcast, warned>>

\* ------------------------------------------------- devices and messages
DefaultProf == [missing |-> {}, failing |-> {}, begin |-> 0]

DefaultHw ==
  [ks |-> [ZeroKs EXCEPT !.autoneg = 1, !.speed = 1000, !.duplex = 1,
                         !.supported = {1, 3, 5, 6},
                         !.advertising = {1, 3, 5, 6}],
   wol |-> [supported |-> {"WAKE_PHY", "WAKE_MAGIC"}, wolopts |-> {},
            sopass |-> 0],
   link |-> 1,
   coalesce |-> ZeroCoalesce,
   ring |-> [ZeroRing EXCEPT !.rx_max_pending = MaxVal,
                             !.tx_max_pending = MaxVal],
   pause |-> ZeroPause,
   channels |-> [ZeroChannels EXCEPT !.max_rx = MaxVal,
                                     !.max_combined = MaxVal]]

\* ------------------------------------------------------- the message buffer
\* An sk_buff being filled: cap is the bytes it can hold, len the bytes
\* written and attrs the attributes written, in order.
EmptySkb == [cap |-> 0, len |-> 0, attrs |-> <<>>]

\* nla_put(), nla_put_u8(), nla_put_u32(), nla_put_bitfield32(): the
\* attribute a of w payload bytes is appended when it fits, and nothing is
\* written when it does not
nla_put(skb, a, v, w) ==
  IF skb.len + nla_total_size(w) > skb.cap THEN [skb |-> skb, ret |-> EMSGSIZE]
  ELSE [skb |-> [skb EXCEPT !.len = @ + nla_total_size(w),
                            !.attrs = Append(@, <<a, v>>)],
        ret |-> 0]

\* nla_nest_start(): the header of the nest, when it fits
nla_nest_start(skb, a) ==
  IF skb.len + NLA_HDRLEN > skb.cap THEN [skb |-> skb, ret |-> EMSGSIZE]
  ELSE [skb |-> [skb EXCEPT !.len = @ + NLA_HDRLEN,
                            !.attrs = Append(@, <<a, "nest">>)],
        ret |-> 0]

\* nla_nest_cancel(): the buffer trimmed to where the nest started
nla_nest_cancel(skb, start) ==
  [skb EXCEPT !.len = start.len,
              !.attrs = SubSeq(@, 1, Len(start.attrs))]

\* a chain nla_put(..) || nla_put(..) || ..: the puts in order up to the
\* first that fails; each put is <<attribute, value, payload bytes>>
RECURSIVE put_chain(_, _)
put_chain(skb, puts) ==
  IF puts = <<>> THEN [skb |-> skb, ret |-> 0]
  ELSE LET p == nla_put(skb, puts[1][1], puts[1][2], puts[1][3])
       IN IF p.ret < 0 THEN p ELSE put_chain(p.skb, Tail(puts))

\* the order in which fill_coalesce() puts its attributes
coalesce_order ==
  <<"COALESCE_RX_USECS", "COALESCE_RX_MAXFRM", "COALESCE_RX_USECS_IRQ",
    "COALESCE_RX_MAXFRM_IRQ", "COALESCE_RX_USECS_LOW",
    "COALESCE_RX_MAXFRM_LOW", "COALESCE_RX_USECS_HIGH",
    "COALESCE_RX_MAXFRM_HIGH", "COALESCE_TX_USECS", "COALESCE_TX_MAXFRM",
    "COALESCE_TX_USECS_IRQ", "COALESCE_TX_MAXFRM_IRQ",
    "COALESCE_TX_USECS_LOW", "COALESCE_TX_MAXFRM_LOW",
    "COALESCE_TX_USECS_HIGH", "COALESCE_TX_MAXFRM_HIGH",
    "COALESCE_PKT_RATE_LOW", "COALESCE_PKT_RATE_HIGH",
    "COALESCE_RX_USE_ADAPTIVE", "COALESCE_TX_USE_ADAPTIVE",
    "COALESCE_RATE_SAMPLE_INTERVAL", "COALESCE_STATS_BLOCK_USECS">>

\* the puts of each fill helper between nla_nest_start() and nla_nest_end().
\* in.bits is the encoded length of a bitset, ethnl_put_bitset32() being a
\* put that writes the whole bitset or fails.
helper_puts(helper, h, in) ==
  CASE helper = "fill_link_info" ->
         <<<<"LINKINFO_PORT", h.ks.port, 1>>,
           <<"LINKINFO_PHYADDR", h.ks.phy_address, 1>>,
           <<"LINKINFO_TP_MDIX", h.ks.eth_tp_mdix, 1>>,
           <<"LINKINFO_TP_MDIX_CTRL", h.ks.eth_tp_mdix_ctrl, 1>>,
           <<"LINKINFO_TRANSCEIVER", h.ks.transceiver, 1>>>>
    [] helper = "fill_link_modes" ->
         <<<<"LINKMODES_AUTONEG", h.ks.autoneg, 1>>,
           <<"LINKMODES_OURS", h.ks.advertising, in.bits>>>>
         \o (IF in.lpm_empty THEN <<>>
             ELSE <<<<"LINKMODES_PEER", h.ks.lp_advertising, in.bits>>>>)
         \o <<<<"LINKMODES_SPEED", h.ks.speed, 4>>,
              <<"LINKMODES_DUPLEX", h.ks.duplex, 1>>>>
    [] helper = "fill_link_state" ->
         IF in.link >= 0 THEN <<<<"LINKSTATE_LINK", Bool(in.link), 1>>>>
         ELSE <<>>
    [] helper = "fill_wolinfo" ->
         <<<<"WOL_MODES", h.wol.wolopts, SIZEOF_BITFIELD32>>>>
         \o (IF in.privileged THEN <<<<"WOL_SOPASS", h.wol.sopass, SOPASS_MAX>>>>
             ELSE <<>>)
    [] helper = "fill_coalesce" ->
         [i \in 1..Len(coalesce_order) |->
            LET a == coalesce_order[i]
            IN IF a \in coalesce_bool THEN <<a, Bool(h.coalesce[a]), 1>>
               ELSE <<a, h.coalesce[a], 4>>]
    [] helper = "fill_ring" ->
         <<<<"RING_RX_MAX_PENDING", h.ring.rx_max_pending, 4>>,
           <<"RING_RX_MINI_MAX_PENDING", h.ring.rx_mini_max_pending, 4>>,
           <<"RING_RX_JUMBO_MAX_PENDING", h.ring.rx_jumbo_max_pending, 4>>,
           <<"RING_TX_MAX_PENDING", h.ring.tx_max_pending, 4>>,
           <<"RING_RX_PENDING", h.ring.rx_pending, 4>>,
           <<"RING_RX_MINI_PENDING", h.ring.rx_mini_pending, 4>>,
           <<"RING_RX_JUMBO_PENDING", h.ring.rx_jumbo_pending, 4>>,
           <<"RING_TX_PENDING", h.ring.tx_pending, 4>>>>
    [] helper = "fill_pause" ->
         <<<<"PAUSE_AUTONEG", Bool(h.pause.autoneg), 1>>,
           <<"PAUSE_RX", Bool(h.pause.rx_pause), 1>>,
           <<"PAUSE_TX", Bool(h.pause.tx_pause), 1>>>>
    [] helper = "fill_channels" ->
         <<<<"CHANNELS_MAX_RX", h.channels.max_rx, 4>>,
           <<"CHANNELS_MAX_TX", h.channels.max_tx, 4>>,
           <<"CHANNELS_MAX_OTHER", h.channels.max_other, 4>>,
           <<"CHANNELS_MAX_COMBINED", h.channels.max_combined, 4>>,
           <<"CHANNELS_RX_COUNT", h.channels.rx_count, 4>>,
           <<"CHANNELS_TX_COUNT", h.channels.tx_count, 4>>,
           <<"CHANNELS_OTHER_COUNT", h.channels.other_count, 4>>,
           <<"CHANNELS_COMBINED_COUNT", h.channels.combined_count, 4>>>>

\* the nest each fill helper opens
helper_nest(helper) ==
  CASE helper = "fill_link_info" -> "SETTINGS_LINK_INFO"
    [] helper = "fill_link_modes" -> "SETTINGS_LINK_MODES"
    [] helper = "fill_link_state" -> "SETTINGS_LINK_STATE"
    [] helper = "fill_wolinfo" -> "SETTINGS_WOL"
    [] helper = "fill_coalesce" -> "PARAMS_COALESCE"
    [] helper = "fill_ring" -> "PARAMS_RING"
    [] helper = "fill_pause" -> "PARAMS_PAUSE"
    [] helper = "fill_channels" -> "PARAMS_CHANNELS"

\* the error path of the helper calls nla_nest_cancel(): that of
\* fill_channels() returns -EMSGSIZE at once
helper_cancels(helper) == helper # "fill_channels"

FillHelpers ==
  {"fill_link_info", "fill_link_modes", "fill_link_state", "fill_wolinfo",
   "fill_coalesce", "fill_ring", "fill_pause", "fill_channels"}

\* one call of a fill helper on the buffer skb: the buffer it leaves and
\* what it returns
fill_helper(helper, skb, h, in) ==
  LET nest == nla_nest_start(skb, helper_nest(helper))
      put == put_chain(nest.skb, helper_puts(helper, h, in))
  IN IF nest.ret < 0 THEN [skb |-> skb, ret |-> EMSGSIZE]
     ELSE IF put.ret < 0
     THEN [skb |-> IF helper_cancels(helper)
                   THEN nla_nest_cancel(put.skb, skb) ELSE put.skb,
           ret |-> EMSGSIZE]
     ELSE [skb |-> put.skb, ret |-> 0]

\* ethtool_notify() was not called
NoNotify == [called |-> FALSE, mask |-> {}, locked |-> FALSE]

\* no fill helper was called
NoFill == [helper |-> "none", skb0 |-> EmptySkb, skb |-> EmptySkb, ret |-> 0]

NoMsg == Restrict([PARAMS_DEV |-> 0], {})

\* A request before it starts.  calls, h0, refs and seen are history: the
\* driver set calls made, the device state when the lock was taken, the
\* references taken less those released, the set calls each SET request had
\* made when a GET prepared its data.  data is the request data block
\* (none, live, freed); args2, args3 are the dump cursor cb->args[2..3];
\* rskb is the reply buffer of a GET (none, sent, freed).  Of a call of
\* ethnl_get_dumpit(), prev is the cursor it started from, good the devices
\* whose ethnl_get_dump_one() returned 0 and one_ret the last result of
\* ethnl_get_dump_one().  Of a call of ethnl_get_doit(), trace is the steps
\* it has taken, in order, and size_ret what reply_size() returned (0 for a
\* length).  Of a SET, h1 is the device state when the lock was released.
\* held is the rtnl_lock() calls of the request less its rtnl_unlock() calls.
\* fill is the call of a fill helper made on a buffer alone.  Of a SET,
\* notify is the ethtool_notify() call made at out_ops.
IdleReq ==
  [pc |-> "idle", kind |-> "none", msg |-> NoMsg, dev |-> NULL, ret |-> 0,
   req_mask |-> {}, step |-> 0, calls |-> <<>>, h0 |-> DefaultHw,
   refs |-> NoRefs,
   ops |-> "none", req_info |-> ZeroReqInfo, data |-> "none",
   rd |-> ZeroReplyData(NULL), reply |-> NoMsg, seen |-> [s \in Reqs |-> 0],
   args2 |-> 0, args3 |-> 0, h |-> 0, idx |-> 0, s_idx |-> 0,
   skb |-> <<>>, out |-> <<>>, room |-> 0,
   got |-> NoDevGet, prepared |-> FALSE,
   reply_len |-> Len0, written |-> Len0, rskb |-> "none",
   prev |-> [args2 |-> 0, args3 |-> 0], good |-> <<>>, one_ret |-> 0,
   trace |-> <<>>, size_ret |-> 0, h1 |-> DefaultHw, held |-> 0,
   fill |-> NoFill, notify |-> NoNotify]

\* device identification nests: by index, by name, both, conflicting, unknown
DevNests ==
  {Restrict([DEV_INDEX |-> 1, DEV_NAME |-> 1], {"DEV_INDEX"}),
   Restrict([DEV_INDEX |-> 1, DEV_NAME |-> 1], {"DEV_NAME"}),
   Restrict([DEV_INDEX |-> 1, DEV_NAME |-> 1], {"DEV_INDEX", "DEV_NAME"}),
   Restrict([DEV_INDEX |-> 1, DEV_NAME |-> NDev], {"DEV_INDEX", "DEV_NAME"}),
   Restrict([DEV_INDEX |-> NDev + 1, DEV_NAME |-> 1], {"DEV_INDEX"}),
   Restrict([DEV_INDEX |-> 1, DEV_NAME |-> 1], {})}

Dev1 == Restrict([DEV_INDEX |-> 1, DEV_NAME |-> 1], {"DEV_INDEX"})

RingNests ==
  {Restrict([RING_RX_PENDING |-> a, RING_RX_MINI_PENDING |-> MaxVal,
             RING_RX_JUMBO_PENDING |-> MaxVal, RING_TX_PENDING |-> b], S) :
     a \in Vals, b \in Vals,
     S \in SUBSET {"RING_RX_PENDING", "RING_RX_MINI_PENDING",
                   "RING_RX_JUMBO_PENDING", "RING_TX_PENDING"}}
  \cup {[RING_RX_PENDING |-> 0, RING_RX_MAX_PENDING |-> MaxVal]}

ChannelsNests ==
  {Restrict([CHANNELS_RX_COUNT |-> a, CHANNELS_TX_COUNT |-> MaxVal,
             CHANNELS_OTHER_COUNT |-> MaxVal, CHANNELS_COMBINED_COUNT |-> b],
            S) :
     a \in Vals, b \in Vals,
     S \in SUBSET {"CHANNELS_RX_COUNT", "CHANNELS_TX_COUNT",
                   "CHANNELS_OTHER_COUNT", "CHANNELS_COMBINED_COUNT"}}
  \cup {[CHANNELS_RX_COUNT |-> 0, CHANNELS_MAX_RX |-> MaxVal]}

CoalesceNest1 ==
  [COALESCE_RX_USECS |-> MaxVal, COALESCE_RX_USE_ADAPTIVE |-> MaxVal + 1]

PauseNest1 == [PAUSE_AUTONEG |-> 1, PAUSE_RX |-> 1]

ParamsMsgs ==
  {Restrict([PARAMS_DEV |-> Dev1, PARAMS_COALESCE |-> CoalesceNest1,
             PARAMS_RING |-> n], S) :
     n \in RingNests,
     S \in {{"PARAMS_DEV", "PARAMS_RING"},
            {"PARAMS_DEV", "PARAMS_RING", "PARAMS_COALESCE"}}}
  \cup
  {Restrict([PARAMS_DEV |-> Dev1, PARAMS_PAUSE |-> PauseNest1,
             PARAMS_CHANNELS |-> n], S) :
     n \in ChannelsNests,
     S \in {{"PARAMS_DEV", "PARAMS_CHANNELS"},
            {"PARAMS_DEV", "PARAMS_CHANNELS", "PARAMS_PAUSE"}}}
  \cup
  {Restrict([PARAMS_DEV |-> Dev1, PARAMS_INFOMASK |-> {"RING"},
             PARAMS_COALESCE |-> CoalesceNest1,
             PARAMS_RING |-> [RING_TX_PENDING |-> MaxVal],
             PARAMS_PAUSE |-> PauseNest1,
             PARAMS_CHANNELS |-> [CHANNELS_RX_COUNT |-> MaxVal]], S) :
     S \in SUBSET {"PARAMS_DEV", "PARAMS_INFOMASK", "PARAMS_COALESCE",
                   "PARAMS_RING", "PARAMS_PAUSE", "PARAMS_CHANNELS"}}
  \cup
  {[PARAMS_DEV |-> d, PARAMS_RING |-> [RING_TX_PENDING |-> MaxVal]] :
     d \in DevNests}
  \cup
  {[PARAMS_DEV |-> Dev1, PARAMS_RING |-> [RING_RX_MAX_PENDING |-> MaxVal],
    PARAMS_CHANNELS |-> [CHANNELS_RX_COUNT |-> MaxVal]]}

RingHw ==
  {[DefaultHw EXCEPT !.ring =
      [rx_max_pending |-> a, rx_mini_max_pending |-> 0,
       rx_jumbo_max_pending |-> MaxVal, tx_max_pending |-> b,
       rx_pending |-> c, rx_mini_pending |-> 0, rx_jumbo_pending |-> 0,
       tx_pending |-> 0]] :
     a \in Vals, b \in Vals, c \in Vals}

ChannelsHw ==
  {[DefaultHw EXCEPT !.channels =
      [max_rx |-> a, max_tx |-> 0, max_other |-> MaxVal, max_combined |-> b,
       rx_count |-> c, tx_count |-> 0, other_count |-> 0,
       combined_count |-> 0]] :
     a \in Vals, b \in Vals, c \in Vals}

ParamsProfiles ==
  {[DefaultProf EXCEPT !.missing = m] :
     m \in {{}, {"get_coalesce"}, {"set_coalesce"}, {"set_ringparam"},
            {"get_pauseparam"}, {"set_pauseparam"}, {"get_channels"},
            {"set_channels"}, {"get_ringparam", "set_ringparam"}}}
  \cup
  {[DefaultProf EXCEPT !.failing = f] :
     f \in {{"get_coalesce"}, {"set_coalesce"}, {"set_ringparam"},
            {"set_pauseparam"}, {"set_channels"}}}
  \cup {[DefaultProf EXCEPT !.begin = EBUSY]}

\* The registry: device d hashes to bucket d modulo the number of buckets.
DefaultIndexHead ==
  [b \in 0..(NETDEV_HASHENTRIES - 1) |->
     SelectSeq([i \in 1..NDev |-> i],
               LAMBDA d : d % NETDEV_HASHENTRIES = b)]

\* device 1 takes the given driver state and callbacks, the others defaults
InitWith(h1, p1) ==
  /\ refcnt = [d \in Devs |-> 1]
  /\ present = [d \in Devs |-> TRUE]
  /\ prof = [d \in Devs |-> IF d = 1 THEN p1 ELSE DefaultProf]
  /\ hw = [d \in Devs |-> IF d = 1 THEN h1 ELSE DefaultHw]
  /\ dev_index_head = DefaultIndexHead
  /\ rtnl = 0
  /\ req = [r \in Reqs |-> IdleReq]
  /\ bcast = <<>>
  /\ warned = {}

\* ---------------------------------------- one SET of device parameters
InitParams ==
  \E hp \in (RingHw \X {DefaultProf}) \cup (ChannelsHw \X {DefaultProf})
            \cup ({DefaultHw} \X ParamsProfiles) :
     InitWith(hp[1], hp[2])

NextParams ==
  \/ SetStart(1, "set_params", ParamsMsgs)
  \/ SetLock(1)
  \/ SetUpdate(1)
  \/ SetNotify(1)
  \/ SetUnlock(1)

SpecParams == InitParams /\ [][NextParams]_vars

\* --------------------------------- claims about a SET of device parameters
\* the position of a category in ethnl_set_params()
params_cats == <<"COALESCE", "RING", "PAUSE", "CHANNELS">>

params_attr(k) == "PARAMS_" \o params_cats[k]

params_get_op(k) ==
  CASE k = 1 -> "get_coalesce" [] k = 2 -> "get_ringparam"
    [] k = 3 -> "get_pauseparam" [] OTHER -> "get_channels"

params_set_op(k) ==
  CASE k = 1 -> "set_coalesce" [] k = 2 -> "set_ringparam"
    [] k = 3 -> "set_pauseparam" [] OTHER -> "set_channels"

\* request r is a SET of device parameters that went through its updates
ParamsUpdated(r) ==
  /\ req[r].kind = "set_params"
  /\ req[r].pc \in {"out_ops", "out_rtnl", "done"}
  /\ req[r].dev # NULL
  /\ ethnl_before_ops(prof[req[r].dev]) = 0

\* category k is named by request r and the device lacks its get or set call
Unsupported(r, k) ==
  /\ Has(req[r].msg, params_attr(k))
  /\ {params_get_op(k), params_set_op(k)} \cap prof[req[r].dev].missing # {}

SetCallsOf(r, K) ==
  {i \in DOMAIN req[r].calls :
     \E k \in K : req[r].calls[i].op = params_set_op(k)}

RingWithinMaxima(d) ==
  /\ d.rx_pending <= d.rx_max_pending
  /\ d.rx_mini_pending <= d.rx_mini_max_pending
  /\ d.rx_jumbo_pending <= d.rx_jumbo_max_pending
  /\ d.tx_pending <= d.tx_max_pending

ChannelsWithinMaxima(d) ==
  /\ d.rx_count <= d.max_rx
  /\ d.tx_count <= d.max_tx
  /\ d.other_count <= d.max_other
  /\ d.combined_count <= d.max_combined

\* C7: every set_ringparam and every set_channels call the handler makes
\* carries values that are all within the maxima the device reported.
C7_SetCallsWithinMaxima ==
  \A r \in Reqs : \A i \in DOMAIN req[r].calls :
    LET c == req[r].calls[i]
    IN /\ c.op = "set_ringparam" => RingWithinMaxima(c.data)
       /\ c.op = "set_channels" => ChannelsWithinMaxima(c.data)

\* the ring fields request r asks for that are over the device's maximum
RingRequestedOverMax(r) ==
  LET tb == req[r].msg["PARAMS_RING"]
      m == req[r].h0.ring
  IN \/ Has(tb, "RING_RX_PENDING") /\ tb["RING_RX_PENDING"] > m.rx_max_pending
     \/ /\ Has(tb, "RING_RX_MINI_PENDING")
        /\ tb["RING_RX_MINI_PENDING"] > m.rx_mini_max_pending
     \/ /\ Has(tb, "RING_RX_JUMBO_PENDING")
        /\ tb["RING_RX_JUMBO_PENDING"] > m.rx_jumbo_max_pending
     \/ Has(tb, "RING_TX_PENDING") /\ tb["RING_TX_PENDING"] > m.tx_max_pending

\* C8: a SET of ring sizes with a requested field over its maximum is
\* rejected and leaves the four ring fields of the device as they were.
C8_RingOverMaxRejected ==
  \A r \in Reqs :
    (/\ ParamsUpdated(r)
     /\ req[r].pc = "done"
     /\ Has(req[r].msg, "PARAMS_RING")
     /\ RingRequestedOverMax(r))
      => /\ req[r].ret < 0
         /\ hw[req[r].dev].ring = req[r].h0.ring

\* --------------------------------------------- one SET of link settings
LinkInfoNests ==
  {[LINKINFO_PORT |-> v] : v \in Vals}
  \cup {[LINKINFO_PORT |-> MaxVal, LINKINFO_PHYADDR |-> MaxVal],
        [LINKINFO_PORT |-> MaxVal, LINKINFO_TP_MDIX |-> 1]}

LinkModesNests ==
  {[LINKMODES_AUTONEG |-> 0],
   [LINKMODES_AUTONEG |-> 1],
   [LINKMODES_SPEED |-> 100],
   [LINKMODES_SPEED |-> 1000],
   [LINKMODES_SPEED |-> 1000, LINKMODES_DUPLEX |-> 1],
   [LINKMODES_AUTONEG |-> 1, LINKMODES_DUPLEX |-> 0],
   [LINKMODES_OURS |-> [value |-> {1}, mask |-> {1, 3}]],
   [LINKMODES_OURS |-> [value |-> {7}, mask |-> {7}]],
   [LINKMODES_AUTONEG |-> 0,
    LINKMODES_OURS |-> [value |-> {7}, mask |-> {7}]],
   [LINKMODES_AUTONEG |-> 0, LINKMODES_PEER |-> 0]}

WolNests ==
  {[WOL_MODES |-> [value |-> {"WAKE_MAGIC"}, selector |-> {"WAKE_MAGIC"}]],
   [WOL_MODES |-> [value |-> {}, selector |-> {"WAKE_PHY"}]],
   [WOL_SOPASS |-> MaxVal],
   [WOL_SOPASS |-> MaxVal, WOL_UNSPEC |-> 0]}

\* the messages that hold attribute a with one of the nests, or not at all
OptAttr(a, nests) == {NoMsg} \cup {a :> n : n \in nests}

SettingsMsgs ==
  {("SETTINGS_DEV" :> Dev1) @@ li @@ lm @@ wol :
     li \in OptAttr("SETTINGS_LINK_INFO", LinkInfoNests),
     lm \in OptAttr("SETTINGS_LINK_MODES", LinkModesNests),
     wol \in OptAttr("SETTINGS_WOL", WolNests)}
  \cup
  {[SETTINGS_DEV |-> d, SETTINGS_LINK_INFO |-> [LINKINFO_PORT |-> MaxVal]] :
     d \in DevNests}
  \cup
  {[SETTINGS_DEV |-> Dev1, SETTINGS_LINK_STATE |-> NoMsg,
    SETTINGS_LINK_INFO |-> [LINKINFO_PORT |-> MaxVal]],
   [SETTINGS_LINK_INFO |-> [LINKINFO_PORT |-> MaxVal]]}

SettingsProfiles ==
  {[DefaultProf EXCEPT !.missing = m] :
     m \in {{}, {"get_link_ksettings"}, {"set_link_ksettings"}, {"get_wol"},
            {"set_wol"}}}
  \cup
  {[DefaultProf EXCEPT !.failing = f] :
     f \in {{"get_link_ksettings"}, {"set_link_ksettings"}, {"get_wol"},
            {"set_wol"}}}
  \cup {[DefaultProf EXCEPT !.begin = EBUSY]}

SettingsHw ==
  {[DefaultHw EXCEPT !.ks.autoneg = a, !.ks.port = v] :
     a \in {0, 1}, v \in Vals}

InitSettings ==
  \E h \in SettingsHw : \E p \in SettingsProfiles : InitWith(h, p)

NextSettings ==
  \/ SetStart(1, "set_settings", SettingsMsgs)
  \/ SetLock(1)
  \/ SetUpdate(1)
  \/ SetNotify(1)
  \/ SetUnlock(1)

SpecSettings == InitSettings /\ [][NextSettings]_vars

\* ------------------------------------- claims about a SET of link settings
\* request r is a SET of link settings that resolved its device and took
\* the lock
SettingsLocked(r) ==
  /\ req[r].kind = "set_settings"
  /\ req[r].dev # NULL
  /\ req[r].pc \in {"update", "oops", "out_ops", "out_rtnl", "done"}

KsCalls(r) ==
  {i \in DOMAIN req[r].calls : req[r].calls[i].op = "set_link_ksettings"}

\* every attribute of the link-info and link-modes nests of msg decodes
LinkNestsDecoded(msg) ==
  /\ Has(msg, "SETTINGS_LINK_INFO")
       => DOMAIN msg["SETTINGS_LINK_INFO"] \cap set_linkinfo_policy = {}
  /\ Has(msg, "SETTINGS_LINK_MODES")
       => LET tb == msg["SETTINGS_LINK_MODES"]
          IN /\ DOMAIN tb \cap set_linkmodes_policy = {}
             /\ Has(tb, "LINKMODES_OURS")
                  => tb["LINKMODES_OURS"].value \cup tb["LINKMODES_OURS"].mask
                       \subseteq DOMAIN link_mode_params

\* the copy ks holds the value of every attribute of both nests of msg
HoldsAllChanges(ks, msg) ==
  /\ Has(msg, "SETTINGS_LINK_INFO")
       => LET tb == msg["SETTINGS_LINK_INFO"]
          IN /\ Has(tb, "LINKINFO_PORT") => ks.port = tb["LINKINFO_PORT"]
             /\ Has(tb, "LINKINFO_PHYADDR")
                  => ks.phy_address = tb["LINKINFO_PHYADDR"]
             /\ Has(tb, "LINKINFO_TP_MDIX_CTRL")
                  => ks.eth_tp_mdix_ctrl = tb["LINKINFO_TP_MDIX_CTRL"]
  /\ Has(msg, "SETTINGS_LINK_MODES")
       => LET tb == msg["SETTINGS_LINK_MODES"]
          IN /\ Has(tb, "LINKMODES_AUTONEG")
                  => ks.autoneg = tb["LINKMODES_AUTONEG"]
             /\ Has(tb, "LINKMODES_SPEED") => ks.speed = tb["LINKMODES_SPEED"]
             /\ Has(tb, "LINKMODES_DUPLEX")
                  => ks.duplex = tb["LINKMODES_DUPLEX"]
             /\ Has(tb, "LINKMODES_OURS")
                  => ks.advertising \cap tb["LINKMODES_OURS"].mask
                       = tb["LINKMODES_OURS"].value
                           \cap tb["LINKMODES_OURS"].mask

C10_OneSetOfCompleteCopy ==
  \A r \in Reqs :
    SettingsLocked(r)
      => /\ Cardinality(KsCalls(r)) <= 1
         /\ \A i \in KsCalls(r) :
              /\ LinkNestsDecoded(req[r].msg)
              /\ HoldsAllChanges(req[r].calls[i].data, req[r].msg)
         /\ (\/ ~LinkNestsDecoded(req[r].msg)
             \/ "set_link_ksettings" \in prof[req[r].dev].failing)
              => /\ hw[req[r].dev].ks = req[r].h0.ks
                 /\ req[r].req_mask \cap {"LINKINFO", "LINKMODES"} = {}

\* a finished request whose two nests both changed the link settings with
\* one set_link_ksettings call
C10_Witness ==
  /\ SettingsLocked(1)
  /\ req[1].pc = "done"
  /\ req[1].ret = 0
  /\ Cardinality(KsCalls(1)) = 1
  /\ {"LINKINFO", "LINKMODES"} \subseteq req[1].req_mask
  /\ hw[1].ks.port # req[1].h0.ks.port
  /\ hw[1].ks.advertising # req[1].h0.ks.advertising

\* C5: after a SET request in which a category changed, a notification with
\* the reply command id is broadcast for the device.
C5_ChangeIsBroadcast ==
  \A r \in Reqs :
    (/\ req[r].kind \in SetKinds
     /\ req[r].pc \in {"out_rtnl", "done"}
     /\ req[r].req_mask # {})
      => \E i \in DOMAIN bcast :
           /\ bcast[i].cmd = set_cmd(req[r].kind)
           /\ bcast[i].dev = req[r].dev

\* ------------------------------------------------------------ GET requests
GetKinds == {"get_doit", "get_dump"}

get_dev_attr(ops) == IF ops = "settings" THEN "SETTINGS_DEV" ELSE "PARAMS_DEV"

\* the set calls each SET request on device d has made so far
SetProgress(d) ==
  [s \in Reqs |->
     IF req[s].kind \in SetKinds /\ req[s].dev = d
     THEN Len(req[s].calls) ELSE 0]

\* The steps of ethnl_get_doit() up to rtnl_lock(): a failure leaves by
\* err_dev, which reads req_info->dev and finds it NULL.
get_doit_head(ret) ==
  <<"alloc_get_data", "parse_request">>
  \o (IF ret < 0 THEN <<"req_info->dev">> ELSE <<"init_reply_data">>)

MutGetStartNoDevCheck(r, ops, msgs, privs) ==
  /\ req[r].pc = "idle"
  /\ \E msg \in msgs, privileged \in privs, alloc_ok \in BOOLEAN :
       LET pr == parse_request(ops, refcnt, present, msg, privileged)
           ret == pr.ret
           q == [req[r] EXCEPT !.kind = "get_doit", !.ops = ops, !.msg = msg]
       IN IF ~alloc_ok
          THEN /\ req' = [req EXCEPT ![r] =
                            [q EXCEPT !.ret = ENOMEM, !.pc = "done",
                                      !.trace = <<"alloc_get_data">>]]
               /\ UNCHANGED refcnt
          ELSE /\ refcnt' = pr.rc
               /\ req' = [req EXCEPT ![r] =
                    [q EXCEPT
                       !.data = "live",
                       !.req_info = pr.req_info,
                       !.dev = pr.req_info.dev,
                       !.rd = ZeroReplyData(pr.req_info.dev),
                       !.refs = RefsAfter(@, refcnt, pr.rc),
                       !.got = pr.got,
                       !.ret = ret,
                       !.trace = get_doit_head(ret),
                       !.pc = IF ret < 0 THEN "done" ELSE "get_lock"]]
  /\ UNCHANGED <<present, prof, hw, dev_index_head, rtnl, bcast, warned>>

\* ethnl_get_doit() up to rtnl_lock(): ethnl_alloc_get_data(), parse_request()
\* and the check for a device; the error exits are err_dev.
GetStart(r, ops, msgs, privs) ==
  /\ req[r].pc = "idle"
  /\ \E msg \in msgs, privileged \in privs, alloc_ok \in BOOLEAN :
       LET pr == parse_request(ops, refcnt, present, msg, privileged)
           ret == IF pr.req_info.dev = NULL THEN EINVAL ELSE pr.ret
           q == [req[r] EXCEPT !.kind = "get_doit", !.ops = ops, !.msg = msg]
       IN IF ~alloc_ok
          THEN /\ req' = [req EXCEPT ![r] =
                            [q EXCEPT !.ret = ENOMEM, !.pc = "done",
                                      !.trace = <<"alloc_get_data">>]]
               /\ UNCHANGED refcnt
          ELSE /\ refcnt' = pr.rc
               /\ req' = [req EXCEPT ![r] =
                    [q EXCEPT
                       !.data = "live",
                       !.req_info = pr.req_info,
                       !.dev = pr.req_info.dev,
                       !.rd = ZeroReplyData(pr.req_info.dev),
                       !.refs = RefsAfter(@, refcnt, pr.rc),
                       !.got = pr.got,
                       !.ret = ret,
                       !.trace = get_doit_head(ret),
                       !.pc = IF ret < 0 THEN "done" ELSE "get_lock"]]
  /\ UNCHANGED <<present, prof, hw, dev_index_head, rtnl, bcast, warned>>

MutGetLockNoWait(r) ==
  /\ req[r].pc = "get_lock"
  /\ req' = [req EXCEPT ![r].pc = "get_locked"]
  /\ UNCHANGED <<refcnt, present, prof, hw, dev_index_head, rtnl, bcast,
                 warned>>

\* rtnl_lock() of ethnl_get_doit()
GetLock(r) ==
  /\ req[r].pc = "get_lock"
  /\ rtnl = 0
  /\ rtnl' = r
  /\ req' = [req EXCEPT ![r].pc = "get_locked",
                        ![r].held = @ + 1,
                        ![r].trace = Append(@, "rtnl_lock")]
  /\ UNCHANGED <<refcnt, present, prof, hw, dev_index_head, bcast, warned>>

\* The device err_dev puts after err: freed the request data: req_info->dev
\* is read from freed memory, which may still hold the device, or NULL, or
\* the address of another device.
freed_dev_read(dev) == {dev, NULL} \cup Devs

MutDoitErrSendsReply(ret) ==
  [rskb |-> "sent",
   warned |-> IF ret = EMSGSIZE
              THEN {"calculated message payload length not sufficient"}
              ELSE {}]

\* err: of ethnl_get_doit(): the WARN_ONCE() for -EMSGSIZE and nlmsg_free()
get_doit_err(ret) ==
  [rskb |-> "freed",
   warned |-> IF ret = EMSGSIZE
              THEN {"calculated message payload length not sufficient"}
              ELSE {}]

\* What ethnl_bitset32_size() may return to link_modes_size(): a length (0
\* here, the length itself being kept in the bitset's arguments) or a
\* negative error, which link_modes_size() and settings_size() pass on.
ethnl_bitset32_size_rets == {0, EINVAL}

\* what ops->reply_size() may return besides a length
reply_size_rets(ops, rd) ==
  IF ops = "settings" /\ "LINKMODES" \in rd.info_mask
  THEN ethnl_bitset32_size_rets ELSE {0}

\* What ethnl_reply_init() and fill_reply() may come to for a reply sized
\* len that takes wr.  After reply_size() the handler tests ret, which still
\* holds the result of prepare_data() and is not negative, so a negative
\* reply_len goes on to ethnl_reply_init() as a size_t: the allocation may
\* fail, or give a buffer the reply does or does not fit.
get_doit_outcomes(size_ret, len, wr) ==
  IF size_ret < 0 THEN {"nomem", "emsgsize", "ok"}
  ELSE {"nomem"}
       \cup (IF wr.bytes <= len.bytes THEN {"ok"} ELSE {})
       \cup (IF reply_fits(len, wr) THEN {} ELSE {"emsgsize"})

\* the rtnl_unlock() calls among the steps, and the owner of the lock that
\* request r held after them
rtnl_unlocks(steps) ==
  Cardinality({i \in DOMAIN steps : steps[i] = "rtnl_unlock"})

rtnl_after(r, steps) == IF rtnl_unlocks(steps) > 0 THEN 0 ELSE r

MutDoitNomemSkipsUnlock(prep_ret, outcome, put) ==
  IF prep_ret < 0
  THEN <<"prepare_data", "rtnl_unlock", "req_info->dev", "dev_put">>
  ELSE <<"prepare_data", "reply_size", "reply_init">>
       \o CASE outcome = "nomem"
               -> <<"req_info->dev", "dev_put">>
            [] outcome = "emsgsize"
               -> <<"fill_reply", "nlmsg_free", "free_get_data",
                    "rtnl_unlock", "req_info->dev">>
                  \o (IF put = NULL THEN <<>> ELSE <<"dev_put">>)
            [] OTHER
               -> <<"fill_reply", "rtnl_unlock", "genlmsg_end",
                    "req_info->dev", "dev_put", "free_get_data",
                    "genlmsg_reply">>

\* The steps of ethnl_get_doit() from prepare_data() to its return, by the
\* result of prepare_data(), what became of the reply and the device that
\* err_dev found in req_info->dev.
get_doit_tail(prep_ret, outcome, put) ==
  IF prep_ret < 0
  THEN <<"prepare_data", "rtnl_unlock", "req_info->dev", "dev_put">>
  ELSE <<"prepare_data", "reply_size", "reply_init">>
       \o CASE outcome = "nomem"
               -> <<"rtnl_unlock", "req_info->dev", "dev_put">>
            [] outcome = "emsgsize"
               -> <<"fill_reply", "nlmsg_free", "free_get_data",
                    "rtnl_unlock", "req_info->dev">>
                  \o (IF put = NULL THEN <<>> ELSE <<"dev_put">>)
            [] OTHER
               -> <<"fill_reply", "rtnl_unlock", "genlmsg_end",
                    "req_info->dev", "dev_put", "free_get_data",
                    "genlmsg_reply">>

\* ethnl_get_doit() from prepare_data() to its return.  The reply buffer may
\* fail to allocate ("nomem"); fill_reply() runs out of room ("emsgsize")
\* when the fixed-width part is longer than reply_size() said, and may do so
\* when a bitset is written that was sized with other arguments.
GetReply(r) ==
  /\ req[r].pc = "get_locked"
  /\ LET q == req[r]
         dev == q.req_info.dev
         prep == prepare_data(q.ops, q.req_info, q.rd, prof[dev], hw[dev])
         q1 == [q EXCEPT !.rd = prep.rd, !.seen = SetProgress(dev),
                         !.prepared = TRUE, !.pc = "done"]
         len == reply_size(q.ops, q.req_info, prep.rd)
         rep == fill_reply(q.ops, q.req_info, prep.rd)
         wr == reply_written(dev, rep)
     IN IF prep.ret < 0
        THEN /\ refcnt' = dev_put(refcnt, dev)
             /\ rtnl' = rtnl_after(r, get_doit_tail(prep.ret, "", dev))
             /\ req' = [req EXCEPT ![r] =
                  [q1 EXCEPT !.ret = prep.ret, !.seen = q.seen,
                             !.trace = @ \o get_doit_tail(prep.ret, "", dev),
                             !.held = @ - rtnl_unlocks(
                                            get_doit_tail(prep.ret, "", dev)),
                             !.refs = RefsAfter(@, refcnt, refcnt')]]
             /\ UNCHANGED warned
        ELSE \E size_ret \in reply_size_rets(q.ops, prep.rd) :
             \E outcome \in get_doit_outcomes(size_ret, len, wr) :
               \E put \in (IF outcome = "emsgsize" THEN freed_dev_read(dev)
                           ELSE {dev}) :
                 /\ refcnt' = IF put = NULL THEN refcnt
                              ELSE dev_put(refcnt, put)
                 /\ rtnl' = rtnl_after(r, get_doit_tail(prep.ret, outcome,
                                                        put))
                 /\ req' = [req EXCEPT ![r] =
                      [q1 EXCEPT
                         !.ret = CASE outcome = "ok" -> 0
                                   [] outcome = "nomem" -> ENOMEM
                                   [] OTHER -> EMSGSIZE,
                         !.reply = IF outcome = "ok" THEN rep ELSE @,
                         !.reply_len = IF size_ret < 0 THEN Len0 ELSE len,
                         !.size_ret = size_ret,
                         !.trace = @ \o get_doit_tail(prep.ret, outcome, put),
                         !.held = @ - rtnl_unlocks(
                                        get_doit_tail(prep.ret, outcome, put)),
                         !.written = IF outcome = "nomem" THEN @ ELSE wr,
                         !.data = IF outcome = "nomem" THEN @ ELSE "freed",
                         !.rskb = CASE outcome = "ok" -> "sent"
                                    [] outcome = "nomem" -> @
                                    [] OTHER -> get_doit_err(EMSGSIZE).rskb,
                         !.refs = RefsAfter(@, refcnt, refcnt')]]
                 /\ warned' = IF outcome = "emsgsize"
                              THEN warned \cup get_doit_err(EMSGSIZE).warned
                              ELSE warned
  /\ UNCHANGED <<present, prof, hw, dev_index_head, bcast>>

\* ------------------------------------------------------------ dump requests
\* ethnl_get_start(): the device parse_request() may have taken is put at
\* once; a failed parse returns before the callback arguments are set.
DumpStart(r, ops, msgs, privs) ==
  /\ req[r].pc = "idle"
  /\ \E msg \in msgs, privileged \in privs, alloc_ok \in BOOLEAN :
       LET pr == parse_request(ops, refcnt, present, msg, privileged)
           dev == pr.req_info.dev
           rc == IF dev # NULL THEN dev_put(pr.rc, dev) ELSE pr.rc
           q == [req[r] EXCEPT !.kind = "get_dump", !.ops = ops, !.msg = msg]
       IN IF ~alloc_ok
          THEN /\ req' = [req EXCEPT ![r] =
                            [q EXCEPT !.ret = ENOMEM, !.pc = "done"]]
               /\ UNCHANGED refcnt
          ELSE /\ refcnt' = rc
               /\ req' = [req EXCEPT ![r] =
                    [q EXCEPT
                       !.data = "live",
                       !.req_info = [pr.req_info EXCEPT !.dev = NULL],
                       !.refs = RefsAfter(@, refcnt, rc),
                       !.ret = pr.ret,
                       !.args2 = 0, !.args3 = 0,
                       !.pc = IF pr.ret < 0 THEN "done" ELSE "dump_idle"]]
  /\ UNCHANGED <<present, prof, hw, dev_index_head, rtnl, bcast, warned>>

MutDumpCursorBucketStart(h, idx) == [args2 |-> h, args3 |-> 0]

MutDumpCursorPastStopped(h, idx) == [args2 |-> h, args3 |-> idx + 1]

MutDumpCursorKeepsStart(h, idx) == [args2 |-> 0, args3 |-> 0]

\* out, out_err: the position the next call resumes from
dump_cursor(h, idx) == [args2 |-> h, args3 |-> idx]

\* A call of ethnl_get_dumpit(): the cursor is read from the callback
\* arguments; room is the number of replies the buffer of this call holds.
DumpitBegin(r) ==
  /\ req[r].pc = "dump_idle"
  /\ \E room \in 0..MaxRoom :
       req' = [req EXCEPT ![r] =
                 [@ EXCEPT !.h = req[r].args2, !.s_idx = req[r].args3, !.idx = 0,
                           !.skb = <<>>, !.room = room, !.ret = 0,
                           !.prev = [args2 |-> req[r].args2,
                                     args3 |-> req[r].args3],
                           !.good = <<>>, !.one_ret = 0,
                           !.pc = "dump_loop"]]
  /\ UNCHANGED <<refcnt, present, prof, hw, dev_index_head, rtnl, bcast,
                 warned>>

\* The two loops of ethnl_get_dumpit() up to the next device to handle: the
\* end of the table (out), the end of a bucket, a device before the cursor
\* (cont), or a device to dump (genlmsg_put()).
DumpNext(r) ==
  /\ req[r].pc = "dump_loop"
  /\ LET q == req[r]
         cur == dump_cursor(q.h, q.idx)
     IN req' = [req EXCEPT ![r] =
          IF q.h >= NETDEV_HASHENTRIES
          THEN [q EXCEPT !.ret = Len(q.skb), !.args2 = cur.args2,
                         !.args3 = cur.args3, !.pc = "dump_ret"]
          ELSE IF q.idx >= Len(dev_index_head[q.h])
          THEN [q EXCEPT !.h = @ + 1, !.s_idx = 0,
                         !.idx = IF q.h + 1 < NETDEV_HASHENTRIES
                                 THEN 0 ELSE @]
          ELSE IF q.idx < q.s_idx
          THEN [q EXCEPT !.idx = @ + 1]
          ELSE [q EXCEPT !.pc = "dump_one"]]
  /\ UNCHANGED <<refcnt, present, prof, hw, dev_index_head, rtnl, bcast,
                 warned>>

\* genlmsg_put(): the message header of the next reply in the dump buffer;
\* the buffer is the sequence of the devices whose messages it holds
genlmsg_put(skb, dev) == Append(skb, dev)

MutGenlmsgCancelKeeps(skb) == skb

\* genlmsg_cancel(): the buffer trimmed back to the start of the message
genlmsg_cancel(skb) == SubSeq(skb, 1, Len(skb) - 1)

MutDumpStopRetError(skb, ret) == ret

\* what ethnl_get_dumpit() returns after a device failed: skb->len through
\* out when the buffer holds a message, the error through out_err otherwise
dump_stop_ret(skb, ret) == IF Len(skb) > 0 THEN Len(skb) ELSE ret

MutDumpOneKeepsLock(r) == r

\* out: of ethnl_get_dump_one(): rtnl_unlock()
dump_one_out(r) == 0

MutInitReplyDataKeepsScratch(rd, dev) == [rd EXCEPT !.dev = dev]

\* ethnl_init_reply_data(): the reply part zeroed, then its device set
ethnl_init_reply_data(rd, dev) == ZeroReplyData(dev)

\* genlmsg_put() of ethnl_get_dumpit() and ethnl_get_dump_one() up to its
\* rtnl_lock()
DumpLock(r) ==
  /\ req[r].pc = "dump_one"
  /\ rtnl = 0
  /\ rtnl' = r
  /\ LET q == req[r]
         dev == dev_index_head[q.h][q.idx + 1]
     IN req' = [req EXCEPT ![r] =
                 [q EXCEPT !.rd = ethnl_init_reply_data(@, dev),
                           !.skb = genlmsg_put(@, dev),
                           !.held = @ + 1,
                           !.pc = "dump_locked"]]
  /\ UNCHANGED <<refcnt, present, prof, hw, dev_index_head, bcast, warned>>

\* ethnl_get_dump_one() from prepare_data() to rtnl_unlock(), and what
\* ethnl_get_dumpit() does with its result.  The message does not fit when
\* the buffer already holds room messages.
DumpOne(r) ==
  /\ req[r].pc = "dump_locked"
  /\ rtnl' = dump_one_out(r)
  /\ LET q == req[r]
         dev == dev_index_head[q.h][q.idx + 1]
         prep == prepare_data(q.ops, q.req_info, q.rd, prof[dev], hw[dev])
         ret == IF prep.ret < 0 THEN prep.ret
                ELSE IF Len(q.skb) <= q.room THEN 0 ELSE EMSGSIZE
         cur == dump_cursor(q.h, q.idx)
         q1 == [q EXCEPT !.rd = [prep.rd EXCEPT !.dev = NULL],
                         !.held = IF dump_one_out(r) = 0 THEN @ - 1 ELSE @,
                         !.seen = SetProgress(dev), !.one_ret = ret]
         cancelled == genlmsg_cancel(q.skb)
     IN req' = [req EXCEPT ![r] =
          IF ret = 0
          THEN [q1 EXCEPT !.good = Append(@, dev), !.idx = @ + 1,
                          !.pc = "dump_loop"]
          ELSE IF ret = EOPNOTSUPP
          THEN [q1 EXCEPT !.skb = cancelled, !.idx = @ + 1,
                          !.pc = "dump_loop"]
          ELSE [q1 EXCEPT
                  !.skb = cancelled,
                  !.ret = dump_stop_ret(cancelled, ret),
                  !.args2 = cur.args2, !.args3 = cur.args3,
                  !.pc = "dump_ret"]]
  /\ UNCHANGED <<refcnt, present, prof, hw, dev_index_head, bcast, warned>>

\* The return of ethnl_get_dumpit(): a positive length sends the buffer and
\* asks for another call; otherwise the session ends and ethnl_get_done()
\* frees the request data.
DumpReturn(r) ==
  /\ req[r].pc = "dump_ret"
  /\ req' = [req EXCEPT ![r] =
       IF req[r].ret > 0
       THEN [@ EXCEPT !.out = @ \o req[r].skb, !.skb = <<>>,
                      !.pc = "dump_idle"]
       ELSE [@ EXCEPT !.data = "freed", !.pc = "done"]]
  /\ UNCHANGED <<refcnt, present, prof, hw, dev_index_head, rtnl, bcast,
                 warned>>

\* ------------------------------------------------------- one dump session
\* the devices of a bucket, in the order of their index
BucketOf(f, b) ==
  SelectSeq([i \in 1..NDev |-> i], LAMBDA d : f[d] = b)

\* every distribution of the devices over the buckets
Registries ==
  {[b \in 0..(NETDEV_HASHENTRIES - 1) |-> BucketOf(f, b)] :
     f \in [Devs -> 0..(NETDEV_HASHENTRIES - 1)]}

DumpProfiles ==
  {DefaultProf, [DefaultProf EXCEPT !.begin = EBUSY],
   [DefaultProf EXCEPT !.begin = EOPNOTSUPP]}

DumpSettingsMsgs ==
  {NoMsg,
   [SETTINGS_DEV |-> Dev1],
   [SETTINGS_INFOMASK |-> {"LINKINFO", "WOL"}],
   [SETTINGS_DEV |-> [DEV_INDEX |-> NDev + 1]],
   [SETTINGS_WOL |-> NoMsg]}

DumpParamsMsgs ==
  {NoMsg, [PARAMS_DEV |-> Dev1, PARAMS_COMPACT |-> TRUE]}

InitDump ==
  /\ refcnt = [d \in Devs |-> 1]
  /\ present = [d \in Devs |-> TRUE]
  /\ \E p \in DumpProfiles, d1 \in Devs :
       prof = [d \in Devs |-> IF d = d1 THEN p ELSE DefaultProf]
  /\ hw = [d \in Devs |-> DefaultHw]
  /\ dev_index_head \in Registries
  /\ rtnl = 0
  /\ req = [r \in Reqs |-> IdleReq]
  /\ bcast = <<>>
  /\ warned = {}

NextDump ==
  \/ DumpStart(1, "settings", DumpSettingsMsgs, {FALSE})
  \/ DumpStart(1, "params", DumpParamsMsgs, {FALSE})
  \/ DumpitBegin(1)
  \/ DumpNext(1)
  \/ DumpLock(1)
  \/ DumpOne(1)
  \/ DumpReturn(1)

SpecDump == InitDump /\ [][NextDump]_vars

\* the devices a dump session has put in its buffers so far
Emitted(r) == req[r].out \o req[r].skb

\* C1: a dump session puts no device in its buffers twice, and when it ends
\* with a call that returns 0 it has put every device in them once, for any
\* distribution of the devices over the buckets and any buffer sizes; the
\* only devices left out are those whose prepare_data() is not supported.
C1_DumpVisitsEachDeviceOnce ==
  \A r \in Reqs :
    req[r].kind = "get_dump"
      => /\ \A i, j \in DOMAIN Emitted(r) :
              Emitted(r)[i] = Emitted(r)[j] => i = j
         /\ (req[r].pc = "done" /\ req[r].ret = 0 /\ req[r].data = "freed")
              => {Emitted(r)[i] : i \in DOMAIN Emitted(r)}
                   = {d \in Devs : ethnl_before_ops(prof[d]) # EOPNOTSUPP}

\* a call that resumed from a cursor inside a bucket, after an earlier call
\* stopped there on a full buffer, has put the last device in its buffer
C1_Witness ==
  /\ req[1].kind = "get_dump"
  /\ req[1].pc = "dump_loop"
  /\ \A d \in Devs : prof[d] = DefaultProf
  /\ req[1].s_idx >= 1
  /\ Len(req[1].out) >= 1
  /\ Len(req[1].skb) >= 1
  /\ Len(Emitted(1)) = NDev

\* ------------------------------------------- concurrent GET and SET requests
\* Device NDev is not present and its driver refuses every operation; the
\* other devices are in their default state.
SpecSetSettingsMsgs ==
  {[SETTINGS_DEV |-> Dev1,
    SETTINGS_LINK_INFO |-> [LINKINFO_PORT |-> MaxVal],
    SETTINGS_WOL |-> [WOL_SOPASS |-> MaxVal]],
   [SETTINGS_DEV |-> Dev1,
    SETTINGS_LINK_MODES |-> [LINKMODES_AUTONEG |-> 0],
    SETTINGS_WOL |-> [WOL_SOPASS |-> MaxVal, WOL_UNSPEC |-> 0]],
   [SETTINGS_DEV |-> [DEV_INDEX |-> NDev],
    SETTINGS_WOL |-> [WOL_SOPASS |-> MaxVal]],
   [SETTINGS_DEV |-> [DEV_NAME |-> NDev],
    SETTINGS_WOL |-> [WOL_SOPASS |-> MaxVal]]}

SpecSetParamsMsgs ==
  {[PARAMS_DEV |-> Dev1, PARAMS_COALESCE |-> CoalesceNest1,
    PARAMS_CHANNELS |-> [CHANNELS_RX_COUNT |-> MaxVal]]}

SpecGetSettingsMsgs ==
  {[SETTINGS_DEV |-> Dev1],
   [SETTINGS_DEV |-> [DEV_INDEX |-> NDev]],
   [SETTINGS_DEV |-> [DEV_NAME |-> NDev]],
   [SETTINGS_DEV |-> [DEV_INDEX |-> 1, DEV_NAME |-> NDev]],
   NoMsg,
   [SETTINGS_DEV |-> Dev1, SETTINGS_WOL |-> NoMsg]}

SpecGetParamsMsgs == {[PARAMS_DEV |-> Dev1]}

Init ==
  /\ refcnt = [d \in Devs |-> 1]
  /\ present = [d \in Devs |-> d # NDev]
  /\ prof = [d \in Devs |->
               IF d = NDev THEN [DefaultProf EXCEPT !.begin = EBUSY]
               ELSE DefaultProf]
  /\ hw = [d \in Devs |->
             IF d = 1 THEN [DefaultHw EXCEPT !.ks.lp_advertising = {1, 3}]
             ELSE DefaultHw]
  /\ dev_index_head = DefaultIndexHead
  /\ rtnl = 0
  /\ req = [r \in Reqs |-> IdleReq]
  /\ bcast = <<>>
  /\ warned = {}

Next ==
  \/ DumpStart(1, "settings", {NoMsg, [SETTINGS_DEV |-> Dev1]}, {FALSE})
  \/ DumpitBegin(1)
  \/ DumpNext(1)
  \/ DumpLock(1)
  \/ DumpOne(1)
  \/ DumpReturn(1)
  \/ \E r \in Reqs :
       \/ SetStart(r, "set_settings", SpecSetSettingsMsgs)
       \/ SetStart(r, "set_params", SpecSetParamsMsgs)
       \/ SetLock(r)
       \/ SetUpdate(r)
       \/ SetNotify(r)
       \/ SetUnlock(r)
       \/ GetStart(r, "settings", SpecGetSettingsMsgs, {TRUE})
       \/ GetStart(r, "params", SpecGetParamsMsgs, {FALSE})
       \/ GetLock(r)
       \/ GetReply(r)

Spec == Init /\ [][Next]_vars

\* ---------------------------------- claims about concurrent GET and SET
\* C2: the device references a request took are all released, each once,
\* when its handler has returned; a dump session holds none after
\* ethnl_get_start().
C2_ReferencesReleased ==
  \A r \in Reqs :
    /\ \A d \in Devs : req[r].refs[d] \in {0, 1}
    /\ req[r].pc = "done" => req[r].refs = NoRefs
    /\ req[r].kind = "get_dump" => req[r].refs = NoRefs

\* request r is inside the region its handler runs under the lock
InLockedRegion(r) ==
  req[r].pc \in {"update", "oops", "out_ops", "out_rtnl", "get_locked"}

\* C3: the data a GET prepared were read either before a SET request on the
\* same device made any of its set calls or after it made all of them.
C3_NoTornRead ==
  \A g, s \in Reqs :
    (req[g].kind \in GetKinds /\ req[s].kind \in SetKinds)
      => /\ req[s].pc \in {"idle", "lock", "update", "oops"}
              => req[g].seen[s] = 0
         /\ req[s].pc \in {"out_ops", "out_rtnl", "done"}
              => req[g].seen[s] \in {0, Len(req[s].calls)}

\* a GET that gathered the data of a device after a SET on the same device
\* had made both of its set calls and changed the device
C3_Witness ==
  \E g, s \in Reqs :
    /\ req[g].kind = "get_doit"
    /\ req[g].pc = "done"
    /\ req[g].ret = 0
    /\ req[s].kind = "set_settings"
    /\ req[s].dev = req[g].dev
    /\ Len(req[s].calls) = 2
    /\ req[g].seen[s] = 2
    /\ hw[req[s].dev] # req[s].h0

\* C4: a SET holds the lock from the first category update through the
\* notification to its unlock, it changes nothing before it has the lock, and
\* no two requests are under the lock at the same time.
C4_SetHoldsLock ==
  /\ \A r \in Reqs :
       /\ InLockedRegion(r) => rtnl = r
       /\ (req[r].kind \in SetKinds /\ req[r].pc \in {"idle", "lock"})
            => req[r].calls = <<>> /\ req[r].req_mask = {}
  /\ \A r1, r2 \in Reqs :
       (InLockedRegion(r1) /\ InLockedRegion(r2)) => r1 = r2

\* a SET that changed a category and notified still holds the lock while
\* another request that resolved its device waits for it
C4_Witness ==
  \E r, o \in Reqs :
    /\ req[r].kind \in SetKinds
    /\ req[r].pc = "out_rtnl"
    /\ req[r].req_mask # {}
    /\ warned # {}
    /\ rtnl = r
    /\ req[o].pc \in {"lock", "get_lock"}

\* ------------------------------------------------------- one GET request
\* device identification nests of a GET: those of DevNests and the last
\* device by index, by name and by both, an unknown name, an unknown index
\* with a known name, and a nest with an attribute dev_policy rejects
GetDevNests ==
  DevNests \cup
  {[DEV_INDEX |-> NDev], [DEV_NAME |-> NDev],
   [DEV_INDEX |-> NDev, DEV_NAME |-> NDev],
   [DEV_NAME |-> NDev + 1],
   [DEV_INDEX |-> NDev + 1, DEV_NAME |-> 1],
   [DEV_INDEX |-> 1, DEV_UNSPEC |-> 0]}

GetSettingsMsgs ==
  {("SETTINGS_DEV" :> Dev1) @@ m @@ c :
     m \in OptAttr("SETTINGS_INFOMASK", SUBSET ETHTOOL_IM_SETTINGS_ALL),
     c \in OptAttr("SETTINGS_COMPACT", {TRUE})}
  \cup {[SETTINGS_DEV |-> n] : n \in GetDevNests}
  \cup {NoMsg, [SETTINGS_DEV |-> Dev1, SETTINGS_WOL |-> NoMsg]}

GetParamsMsgs ==
  {("PARAMS_DEV" :> Dev1) @@ m @@ c :
     m \in OptAttr("PARAMS_INFOMASK", SUBSET ETHTOOL_IM_PARAMS_ALL),
     c \in OptAttr("PARAMS_COMPACT", {TRUE})}
  \cup {[PARAMS_DEV |-> n] : n \in GetDevNests}
  \cup {NoMsg, [PARAMS_DEV |-> Dev1, PARAMS_RING |-> NoMsg]}

\* the driver of device 1: get callbacks missing or failing, begin() failing
GetProfiles ==
  {[DefaultProf EXCEPT !.missing = m] :
     m \in {{}, {"get_link_ksettings"}, {"get_wol"}, {"get_link"},
            {"get_link_ksettings", "get_wol", "get_link"},
            {"get_coalesce"}, {"get_ringparam"}, {"get_pauseparam"},
            {"get_channels"}, {"get_coalesce", "get_channels"}}}
  \cup
  {[DefaultProf EXCEPT !.failing = f] :
     f \in {{"get_link_ksettings"}, {"get_wol"}, {"get_coalesce"}}}
  \cup {[DefaultProf EXCEPT !.begin = EBUSY]}

\* the link of device 1 down or up, its peer advertising nothing or two modes
GetHw ==
  {[DefaultHw EXCEPT !.link = l, !.ks.lp_advertising = lp] :
     l \in {0, 1}, lp \in {{}, {1, 3}}}

InitGet ==
  \E p1 \in GetProfiles, h1 \in GetHw, last_present \in BOOLEAN :
    /\ refcnt = [d \in Devs |-> 1]
    /\ present = [d \in Devs |-> d # NDev \/ last_present]
    /\ prof = [d \in Devs |-> IF d = 1 THEN p1 ELSE DefaultProf]
    /\ hw = [d \in Devs |-> IF d = 1 THEN h1 ELSE DefaultHw]
    /\ dev_index_head = DefaultIndexHead
    /\ rtnl = 0
    /\ req = [r \in Reqs |-> IdleReq]
    /\ bcast = <<>>
    /\ warned = {}

NextGet ==
  \/ GetStart(1, "settings", GetSettingsMsgs, BOOLEAN)
  \/ GetStart(1, "params", GetParamsMsgs, {FALSE})
  \/ GetLock(1)
  \/ GetReply(1)

SpecGet == InitGet /\ [][NextGet]_vars

\* ------------------------------------------------ claims on a GET request
\* request r is a GET of ops whose prepare_data() ran past ethnl_before_ops()
Prepared(r, ops) ==
  /\ req[r].kind = "get_doit"
  /\ req[r].ops = ops
  /\ req[r].prepared
  /\ ethnl_before_ops(prof[req[r].dev]) >= 0

\* the device operation behind a category of link settings is missing or
\* failed
SettingsOpFailed(p, h, c) ==
  \/ c \in {"LINKINFO", "LINKMODES"} /\ ethnl_get_link_ksettings(p) < 0
  \/ c = "LINKSTATE" /\ ethtool_get_link(p, h) < 0
  \/ c = "WOL" /\ ethnl_get_wol(p) < 0

params_cat_op(c) ==
  CASE c = "COALESCE" -> "get_coalesce" [] c = "RING" -> "get_ringparam"
    [] c = "PAUSE" -> "get_pauseparam" [] OTHER -> "get_channels"

\* C12: after prepare_params the achieved mask is a subset of the requested
\* mask, a category is in it exactly when it was requested and the device
\* has its get callback and the callback succeeded, and prepare_params
\* returned no error.
C12_ParamsMaskIsRequestedAndGot ==
  \A r \in Reqs :
    Prepared(r, "params")
      => LET p == prof[req[r].dev]
         IN /\ req[r].rd.info_mask \subseteq req[r].req_info.req_mask
            /\ \A c \in ETHTOOL_IM_PARAMS_ALL :
                 c \in req[r].rd.info_mask
                   <=> /\ c \in req[r].req_info.req_mask
                       /\ params_cat_op(c) \notin p.missing
                       /\ ~(c = "COALESCE" /\ "get_coalesce" \in p.failing)
            /\ req[r].ret \in {0, ENOMEM}

\* a GET of all four categories on a device without get_coalesce and
\* get_channels
C12_Witness ==
  /\ Prepared(1, "params")
  /\ req[1].ret = 0
  /\ req[1].req_info.req_mask = ETHTOOL_IM_PARAMS_ALL
  /\ req[1].rd.info_mask = {"RING", "PAUSE"}

\* C13: a reply holds the nest of a category exactly when the category is in
\* the achieved mask; the partial-info warning is left exactly when a
\* requested category is not in the achieved mask, and the callbacks then
\* return no error.
C13_ReplyHoldsAchieved ==
  \A r \in Reqs :
    (Prepared(r, "settings") \/ Prepared(r, "params"))
      => /\ req[r].ret = 0 => DOMAIN req[r].reply = req[r].rd.info_mask
         /\ req[r].rd.partial
              <=> req[r].req_info.req_mask \ req[r].rd.info_mask # {}
         /\ req[r].ret < 0 => req[r].ret \in {ENOMEM, EMSGSIZE}

\* a successful GET whose reply holds fewer categories than were requested
C13_Witness ==
  /\ Prepared(1, "settings")
  /\ req[1].ret = 0
  /\ req[1].rd.partial
  /\ req[1].rd.info_mask # {}
  /\ req[1].rd.info_mask # req[1].req_info.req_mask
  /\ DOMAIN req[1].reply = req[1].rd.info_mask

\* C14: a GET of link settings with requested mask {link-modes} on a device
\* whose get_link_ksettings is missing or fails returns no error of its own,
\* with an empty achieved mask and a reply without the link-modes nest.
C14_LinkModesUnsupportedIsEmptyReply ==
  \A r \in Reqs :
    (/\ Prepared(r, "settings")
     /\ req[r].req_info.req_mask = {"LINKMODES"}
     /\ ethnl_get_link_ksettings(prof[req[r].dev]) < 0)
      => /\ req[r].ret \in {0, ENOMEM}
         /\ req[r].rd.info_mask = {}
         /\ ~Has(req[r].reply, "LINKMODES")
         /\ req[r].ret = 0 => req[r].written = LenOf(ethnl_fill_dev(req[r].dev))

\* such a GET on a device whose get_link_ksettings fails, answered
C14_Witness ==
  /\ Prepared(1, "settings")
  /\ req[1].req_info.req_mask = {"LINKMODES"}
  /\ "get_link_ksettings" \in prof[1].failing
  /\ req[1].pc = "done"
  /\ req[1].ret = 0
  /\ req[1].rd.info_mask = {}

\* C15: for every achieved mask of the device parameters handler the length
\* params_size returns is at least the payload the device nest and
\* fill_params write, so fill_params never runs out of room.
C15_ParamsSizeCoversReply ==
  \A r \in Reqs :
    (Prepared(r, "params") /\ req[r].ret \in {0, EMSGSIZE})
      => /\ req[r].written.bytes <= req[r].reply_len.bytes
         /\ req[r].written.bitsets = <<>>
         /\ req[r].ret = 0

\* a reply with all four nests for the device with the longest name, which
\* fills the sized length to the byte
C15_Witness ==
  /\ Prepared(1, "params")
  /\ req[1].ret = 0
  /\ req[1].dev = NDev
  /\ req[1].rd.info_mask = ETHTOOL_IM_PARAMS_ALL
  /\ DOMAIN req[1].reply = ETHTOOL_IM_PARAMS_ALL
  /\ req[1].written.bytes = req[1].reply_len.bytes

\* C16: for every achieved mask of the link settings handler the length
\* settings_size returns covers what the device nest and fill_settings
\* write: the fixed-width part is no longer than sized, and every bitset
\* written was sized with the same value, mask and encoding flags.
C16_SettingsSizeCoversReply ==
  \A r \in Reqs :
    (Prepared(r, "settings") /\ req[r].ret \in {0, EMSGSIZE})
      => reply_fits(req[r].reply_len, req[r].written)

\* the device nest of the request of r, and whether ethnl_dev_get() got it
DevNestOf(r) == req[r].msg[get_dev_attr(req[r].ops)]

DevGetCalled(r) ==
  /\ req[r].kind = "get_doit"
  /\ req[r].got.extack \notin {"not called", "nla_parse_nested"}

\* C17: ethnl_dev_get with an index that matches a device and a name that is
\* not that device's fails with the mismatch error and leaves every
\* reference count as it was.
C17_ConflictFailsAndPuts ==
  \A r \in Reqs :
    (/\ DevGetCalled(r)
     /\ Has(DevNestOf(r), "DEV_INDEX") /\ Has(DevNestOf(r), "DEV_NAME")
     /\ DevNestOf(r)["DEV_INDEX"] \in Devs
     /\ DevNestOf(r)["DEV_NAME"] # DevNestOf(r)["DEV_INDEX"])
      => /\ req[r].got.ret = ENODEV
         /\ req[r].got.dev = NULL
         /\ req[r].got.extack = "ifindex and name do not match"
         /\ req[r].refs = NoRefs
         /\ refcnt = [d \in Devs |-> 1]

\* a lookup by the index of device 1 and the name of another device
C17_Witness ==
  /\ DevGetCalled(1)
  /\ DOMAIN DevNestOf(1) = {"DEV_INDEX", "DEV_NAME"}
  /\ DevNestOf(1)["DEV_INDEX"] = 1
  /\ DevNestOf(1)["DEV_NAME"] = NDev
  /\ req[1].got.ret = ENODEV
  /\ req[1].pc = "done"

\* C18: a device ethnl_dev_get returns is present, however it was found; a
\* lookup that finds a device that is not present fails with the
\* not-present error and holds no reference.
C18_ReturnedDeviceIsPresent ==
  \A r \in Reqs :
    DevGetCalled(r)
      => /\ req[r].got.ret = 0 => present[req[r].got.dev]
         /\ (/\ Has(DevNestOf(r), "DEV_INDEX")
             /\ DevNestOf(r)["DEV_INDEX"] \in Devs
             /\ ~present[DevNestOf(r)["DEV_INDEX"]]
             /\ ~Has(DevNestOf(r), "DEV_NAME"))
              => /\ req[r].got.ret = ENODEV
                 /\ req[r].got.extack = "device not present"
                 /\ req[r].refs = NoRefs

\* C19: ethnl_dev_get fails with the missing-identification error when the
\* nest holds neither index nor name, and with the no-such-device error
\* when the index, or without an index the name, matches no device; a
\* failing call leaves every reference count as it was and a successful one
\* raises the count of the returned device by one.
C19_LookupErrorsAndCounts ==
  \A r \in Reqs :
    DevGetCalled(r)
      => LET tb == DevNestOf(r)
             got == req[r].got
         IN /\ (~Has(tb, "DEV_INDEX") /\ ~Has(tb, "DEV_NAME"))
                 => /\ got.ret = EINVAL
                    /\ got.extack = "neither ifindex nor name specified"
            /\ (Has(tb, "DEV_INDEX") /\ tb["DEV_INDEX"] \notin Devs)
                 => /\ got.ret = ENODEV
                    /\ got.extack = "no device matches ifindex"
            /\ (/\ ~Has(tb, "DEV_INDEX") /\ Has(tb, "DEV_NAME")
                /\ tb["DEV_NAME"] \notin Devs)
                 => /\ got.ret = ENODEV
                    /\ got.extack = "no device matches name"
            /\ got.ret < 0
                 => req[r].refs = NoRefs /\ refcnt = [d \in Devs |-> 1]
            /\ (got.ret = 0 /\ req[r].pc = "get_lock")
                 => /\ req[r].refs = [d \in Devs |->
                                        IF d = got.dev THEN 1 ELSE 0]
                    /\ refcnt = [d \in Devs |-> IF d = got.dev THEN 2 ELSE 1]

\* a lookup by name alone that returned its device with one more reference
C19_Witness ==
  /\ DevGetCalled(1)
  /\ DOMAIN DevNestOf(1) = {"DEV_NAME"}
  /\ req[1].got.ret = 0
  /\ req[1].got.dev = DevNestOf(1)["DEV_NAME"]
  /\ req[1].pc = "get_lock"
  /\ refcnt[req[1].got.dev] = 2

\* C20: a GET that is not a dump and resolved no device fails with -EINVAL
\* before the lock is taken, without prepare_data, reply_size or fill_reply
\* and without a reply.
C20_NoDeviceFailsBeforeLock ==
  \A r \in Reqs :
    /\ (/\ req[r].kind = "get_doit"
        /\ req[r].data # "none"
        /\ req[r].req_info.dev = NULL)
         => /\ req[r].pc = "done"
            /\ req[r].ret = EINVAL
            /\ ~req[r].prepared
            /\ req[r].reply_len = Len0
            /\ req[r].written = Len0
            /\ req[r].reply = NoMsg
            /\ rtnl # r
    /\ (req[r].kind = "get_doit" /\ req[r].pc \in {"get_lock", "get_locked"})
         => req[r].req_info.dev # NULL

\* a GET whose message names no device, and one whose lookup failed
C20_Witness ==
  /\ req[1].kind = "get_doit"
  /\ req[1].data = "live"
  /\ req[1].msg = NoMsg
  /\ req[1].pc = "done"
  /\ req[1].ret = EINVAL


\* ----------------------------- claims about the exits of the GET handlers
\* fill_reply() of the GET request r failed
FillReplyFailed(r) ==
  /\ req[r].kind = "get_doit"
  /\ req[r].pc = "done"
  /\ req[r].prepared
  /\ req[r].ret = EMSGSIZE

\* C21: when fill_reply() fails in ethnl_get_doit() no reply is sent, the
\* reply buffer is freed and the error is what the handler returns; for
\* -EMSGSIZE the warning about the calculated payload length has fired.
C21_FillFailureSendsNothing ==
  \A r \in Reqs :
    /\ FillReplyFailed(r)
         => /\ req[r].reply = NoMsg
            /\ req[r].rskb = "freed"
            /\ req[r].ret < 0
            /\ "calculated message payload length not sufficient" \in warned
    /\ (req[r].kind = "get_doit" /\ req[r].rskb = "sent")
         => req[r].pc = "done" /\ req[r].ret = 0

\* a settings reply whose peer bitset was sized in another encoding than
\* written did not fit its buffer
C21_Witness ==
  /\ FillReplyFailed(1)
  /\ req[1].ops = "settings"
  /\ ~reply_fits(req[1].reply_len, req[1].written)
  /\ req[1].rskb = "freed"

\* C22: when ethnl_get_doit() has returned, the request data it allocated
\* have been freed.
C22_DoitFreesRequestData ==
  \A r \in Reqs :
    (req[r].kind = "get_doit" /\ req[r].pc = "done")
      => req[r].data \in {"none", "freed"}

\* C23: when a dump session has ended, the request data ethnl_get_start()
\* allocated have been freed.
C23_DumpFreesRequestData ==
  \A r \in Reqs :
    (req[r].kind = "get_dump" /\ req[r].pc = "done")
      => req[r].data \in {"none", "freed"}


\* ------------------------------------------------ claims about dump calls
\* prepare_data() of the dump session r is not supported by device d
DumpNotSupported(r, d) ==
  prepare_data(req[r].ops, req[r].req_info, ZeroReplyData(d),
               prof[d], hw[d]).ret = EOPNOTSUPP

\* C24: a device whose prepare_data() returns -EOPNOTSUPP leaves no message
\* in the buffers of a dump, the loop goes on after it, and the call that
\* met it ends only at the end of the table or at a later device's failure,
\* never with its error.
C24_NotSupportedIsSkipped ==
  \A r \in Reqs :
    req[r].kind = "get_dump" =>
      /\ req[r].pc # "dump_locked"
           => \A i \in DOMAIN Emitted(r) : ~DumpNotSupported(r, Emitted(r)[i])
      /\ req[r].one_ret = EOPNOTSUPP => req[r].ret # EOPNOTSUPP
      /\ (req[r].one_ret = EOPNOTSUPP
          /\ req[r].pc \in {"dump_loop", "dump_one", "dump_ret"})
           => /\ req[r].skb = req[r].good
              /\ req[r].pc = "dump_ret"
                   => /\ req[r].h >= NETDEV_HASHENTRIES
                      /\ req[r].ret = Len(req[r].skb)

\* a finished dump that skipped device 1 and holds the message of a device
\* that follows it in the same bucket
C24_Witness ==
  /\ req[1].kind = "get_dump"
  /\ req[1].pc = "done"
  /\ req[1].ret = 0
  /\ DumpNotSupported(1, 1)
  /\ \E b \in DOMAIN dev_index_head :
       /\ Len(dev_index_head[b]) >= 2
       /\ dev_index_head[b][1] = 1
       /\ \E i \in DOMAIN req[1].out : req[1].out[i] = dev_index_head[b][2]

\* the call of ethnl_get_dumpit() of session r stopped at a failed device
DumpStopped(r) ==
  /\ req[r].kind = "get_dump"
  /\ req[r].pc = "dump_ret"
  /\ req[r].one_ret < 0
  /\ req[r].one_ret # EOPNOTSUPP

\* C25: a call that met an error other than -EOPNOTSUPP stopped at the
\* failing device; its buffer holds exactly the messages of the devices it
\* handled with success, in order, and nothing of the failing device; it
\* returns the buffer length when the buffer is not empty and the error
\* otherwise.
C25_FailureKeepsEarlierReplies ==
  \A r \in Reqs :
    DumpStopped(r) =>
      /\ req[r].h < NETDEV_HASHENTRIES
      /\ req[r].idx < Len(dev_index_head[req[r].h])
      /\ req[r].skb = req[r].good
      /\ \A i \in DOMAIN req[r].skb :
           req[r].skb[i] # dev_index_head[req[r].h][req[r].idx + 1]
      /\ req[r].ret = IF req[r].skb # <<>> THEN Len(req[r].skb)
                      ELSE req[r].one_ret

\* a call that put a message in its buffer and then met a busy device
C25_Witness ==
  /\ DumpStopped(1)
  /\ req[1].one_ret = EBUSY
  /\ Len(req[1].skb) >= 1
  /\ req[1].ret = Len(req[1].skb)

\* lexicographic order of two cursors
CursorLeq(a, b) ==
  \/ a.args2 < b.args2
  \/ a.args2 = b.args2 /\ a.args3 <= b.args3

\* the cursor of session r
Cursor(r) == [args2 |-> req[r].args2, args3 |-> req[r].args3]

\* the cursor designates a device of the table
Designates(c) ==
  /\ c.args2 < NETDEV_HASHENTRIES
  /\ c.args3 < Len(dev_index_head[c.args2])

\* a stopped call left the cursor at the device that failed, whose message
\* is in no buffer, and the next call handles that device first
StoppedCursorResumes(r) ==
  /\ DumpStopped(r)
       => /\ Designates(Cursor(r))
          /\ Cursor(r) = [args2 |-> req[r].h, args3 |-> req[r].idx]
          /\ \A i \in DOMAIN Emitted(r) :
               Emitted(r)[i] # dev_index_head[req[r].args2][req[r].args3 + 1]
  /\ (req[r].kind = "get_dump" /\ req[r].pc = "dump_locked")
       => /\ CursorLeq(req[r].prev,
                       [args2 |-> req[r].h, args3 |-> req[r].idx])
          /\ (Designates(req[r].prev) /\ req[r].good = <<>>
              /\ req[r].one_ret = 0)
               => req[r].prev = [args2 |-> req[r].h, args3 |-> req[r].idx]

\* C26 as stated: the cursor a call stores is never before, in lexicographic
\* order, the cursor the call started from, and a stopped call's cursor
\* designates the device it stopped at.
C26_CursorNeverDecreases ==
  \A r \in Reqs :
    req[r].kind = "get_dump" =>
      /\ CursorLeq(req[r].prev, Cursor(r))
      /\ StoppedCursorResumes(r)

\* C26 amended: the bucket index never decreases, and the offset never
\* decreases while the bucket index stays the same below
\* NETDEV_HASHENTRIES; at the end of the table the offset is not kept.
C26_CursorNeverDecreasesInsideTable ==
  \A r \in Reqs :
    req[r].kind = "get_dump" =>
      /\ req[r].prev.args2 <= req[r].args2
      /\ (req[r].prev.args2 = req[r].args2
          /\ req[r].args2 < NETDEV_HASHENTRIES)
           => req[r].prev.args3 <= req[r].args3
      /\ StoppedCursorResumes(r)

\* a call resumed at the second device of a bucket, where the call before
\* it had stopped on a full buffer, and stopped there again
C26_Witness ==
  /\ DumpStopped(1)
  /\ req[1].prev.args3 = 1
  /\ Cursor(1) = req[1].prev
  /\ Len(req[1].out) >= 1


\* ------------------------------------- a dump session and a SET request
\* Request 1 dumps the link settings of all devices while request 2 sets
\* the wake-on-LAN password or the port of device 1.
DumpSetMsgs ==
  {[SETTINGS_DEV |-> Dev1, SETTINGS_WOL |-> [WOL_SOPASS |-> MaxVal]],
   [SETTINGS_DEV |-> Dev1,
    SETTINGS_LINK_INFO |-> [LINKINFO_PORT |-> MaxVal]]}

InitDumpSet == InitWith(DefaultHw, DefaultProf)

DumpSteps ==
  \/ DumpStart(1, "settings", {NoMsg}, {FALSE})
  \/ DumpitBegin(1)
  \/ DumpNext(1)
  \/ DumpLock(1)
  \/ DumpOne(1)
  \/ DumpReturn(1)

SetSteps ==
  \/ SetStart(2, "set_settings", DumpSetMsgs)
  \/ SetLock(2)
  \/ SetUpdate(2)
  \/ SetNotify(2)
  \/ SetUnlock(2)

NextDumpSet == DumpSteps \/ SetSteps

\* Both handlers run on; rtnl_lock() is a mutex that hands the lock to a
\* waiter, so a request that finds the lock free again and again gets it.
SpecDumpSet ==
  /\ InitDumpSet
  /\ [][NextDumpSet]_vars
  /\ WF_vars(DumpitBegin(1))
  /\ WF_vars(DumpNext(1))
  /\ SF_vars(DumpLock(1))
  /\ WF_vars(DumpOne(1))
  /\ WF_vars(DumpReturn(1))
  /\ SF_vars(SetLock(2))
  /\ WF_vars(SetUpdate(2))
  /\ WF_vars(SetNotify(2))
  /\ WF_vars(SetUnlock(2))

\* the dump session r holds the lock only inside ethnl_get_dump_one()
DumpLockOnlyInDumpOne(r) ==
  req[r].kind = "get_dump" => (rtnl = r <=> req[r].pc = "dump_locked")

\* C27: a dump holds the RTNL lock only inside ethnl_get_dump_one(), not
\* between two devices and not when ethnl_get_dumpit() has returned, and a
\* SET request that waits for the lock gets it in the end.
C27_DumpYieldsLock ==
  /\ [](\A r \in Reqs : DumpLockOnlyInDumpOne(r))
  /\ \A r \in Reqs :
       (req[r].kind \in SetKinds /\ req[r].pc = "lock") ~> (rtnl = r)

\* the SET request holds the lock in the middle of a call of
\* ethnl_get_dumpit(): one device's message is in the buffer and the loop
\* stands before another device
C27_Witness ==
  /\ req[1].kind = "get_dump"
  /\ req[1].pc = "dump_one"
  /\ Len(req[1].skb) >= 1
  /\ rtnl = 2
  /\ req[2].kind \in SetKinds


\* ---------------------------- claims about the advertised modes of a SET
\* the link modes of the table that have a speed
SpeedModes == {i \in DOMAIN link_mode_params : link_mode_params[i].speed # -1}

\* the link-modes nest tb asks for automatic advertising on a device whose
\* link settings are ks: no bitset of its own, autonegotiation on once the
\* nest's autoneg value is applied, a speed or a duplex
DerivationDue(ks, tb) ==
  /\ ~Has(tb, "LINKMODES_OURS")
  /\ (IF Has(tb, "LINKMODES_AUTONEG") THEN tb["LINKMODES_AUTONEG"]
      ELSE ks.autoneg) # 0
  /\ (Has(tb, "LINKMODES_SPEED") \/ Has(tb, "LINKMODES_DUPLEX"))

\* the advertised modes the nest tb leaves on that device
ExpectedAdvertising(ks, tb) ==
  IF DerivationDue(ks, tb)
  THEN {i \in SpeedModes :
          /\ i \in ks.supported
          /\ Has(tb, "LINKMODES_SPEED")
               => link_mode_params[i].speed = tb["LINKMODES_SPEED"]
          /\ Has(tb, "LINKMODES_DUPLEX")
               => link_mode_params[i].duplex = tb["LINKMODES_DUPLEX"]}
       \cup (ks.advertising \ SpeedModes)
  ELSE IF Has(tb, "LINKMODES_OURS")
  THEN (ks.advertising \ tb["LINKMODES_OURS"].mask)
       \cup (tb["LINKMODES_OURS"].value \cap tb["LINKMODES_OURS"].mask)
  ELSE ks.advertising

\* request r is a SET with a link-modes nest that decodes
LinkModesSet(r) ==
  /\ SettingsLocked(r)
  /\ Has(req[r].msg, "SETTINGS_LINK_MODES")
  /\ LinkNestsDecoded(req[r].msg)

\* C28: the link settings a SET with a link-modes nest passes to
\* set_link_ksettings(), and leaves on the device once the link settings
\* block is done, advertise the derived modes exactly when the nest has no
\* bitset, autonegotiation is on after the nest's value and a speed or a
\* duplex is given: of the modes with a speed those supported and matching,
\* of the others those advertised before.
C28_AutoAdvertising ==
  \A r \in Reqs :
    LinkModesSet(r) =>
      LET tb == req[r].msg["SETTINGS_LINK_MODES"]
          ks0 == req[r].h0.ks
          p == prof[req[r].dev]
      IN /\ \A i \in KsCalls(r) :
              req[r].calls[i].data.advertising = ExpectedAdvertising(ks0, tb)
         /\ (/\ req[r].step >= 2
             /\ {"get_link_ksettings", "set_link_ksettings"}
                  \cap (p.missing \cup p.failing) = {})
              => hw[req[r].dev].ks.advertising = ExpectedAdvertising(ks0, tb)

\* speed 1000 asked of a device with autonegotiation on that supports and
\* advertises 10, 100 and 1000 full duplex: 1000baseT/Full is the only link
\* mode it advertises after the request
C28_Witness ==
  /\ LinkModesSet(1)
  /\ req[1].pc = "done"
  /\ req[1].ret = 0
  /\ req[1].msg["SETTINGS_LINK_MODES"] = [LINKMODES_SPEED |-> 1000]
  /\ {3, 5} \subseteq req[1].h0.ks.supported
  /\ {3, 5} \subseteq req[1].h0.ks.advertising
  /\ req[1].h0.ks.autoneg = 1
  /\ hw[1].ks.advertising \cap SpeedModes = {5}


\* ------------------------------------- claims about the wake-on-LAN password
\* the reply without the password attribute of its wake-on-LAN nest
WithoutSopass(reply) ==
  [c \in DOMAIN reply |->
     IF c = "WOL"
     THEN Restrict(reply[c], DOMAIN reply[c] \ {"WOL_SOPASS"})
     ELSE reply[c]]

\* the reply holds the password
HasSopass(reply) == Has(reply, "WOL") /\ Has(reply["WOL"], "WOL_SOPASS")

\* the reply the request data req_info get for the device dev in its
\* current state, had the requester the privilege priv
ReplyAs(ops, req_info, dev, priv) ==
  LET ri == [req_info EXCEPT !.privileged = priv]
      prep == prepare_data(ops, ri, ZeroReplyData(dev), prof[dev], hw[dev])
  IN fill_reply(ops, ri, prep.rd)

\* the messages ethnl_std_notify() multicasts about the link settings of
\* device d for the notification mask m
SettingsNotifications(d, m) ==
  ethnl_std_notify(<<>>, prof[d], hw[d], d, "ETHNL_CMD_SET_SETTINGS", m)

\* C29: the reply of a GET of link settings holds the password exactly when
\* it holds the wake-on-LAN nest and the requester is privileged; the reply
\* the same request gets on the same device state with the other privilege
\* differs from it in the password attribute only; and the notification
\* ethnl_std_notify() builds about the same device for the same categories
\* does not hold the password.
C29_SopassOnlyForPrivileged ==
  \A r \in Reqs :
    (/\ req[r].kind = "get_doit" /\ req[r].ops = "settings"
     /\ req[r].pc = "done" /\ req[r].ret = 0)
      => LET q == req[r]
             other == ReplyAs(q.ops, q.req_info, q.req_info.dev,
                              ~q.req_info.privileged)
             ntf == SettingsNotifications(q.req_info.dev, q.req_info.req_mask)
         IN /\ HasSopass(q.reply)
                 <=> (Has(q.reply, "WOL") /\ q.req_info.privileged)
            /\ WithoutSopass(q.reply) = WithoutSopass(other)
            /\ Has(q.reply, "WOL") => HasSopass(q.reply) # HasSopass(other)
            /\ \A i \in DOMAIN ntf : ~HasSopass(ntf[i].payload)

\* a privileged requester got the password in its reply, and a notification
\* about the wake-on-LAN settings of the same device would hold the nest
C29_Witness ==
  /\ req[1].kind = "get_doit"
  /\ req[1].pc = "done"
  /\ req[1].ret = 0
  /\ req[1].req_info.privileged
  /\ HasSopass(req[1].reply)
  /\ Len(SettingsNotifications(1, {"WOL"})) = 1
  /\ Has(SettingsNotifications(1, {"WOL"})[1].payload, "WOL")


\* ------------------------------------------------------- device events
\* the netdevice notifier events delivered to ethnl_netdev_event()
NetdevEvents ==
  {"NETDEV_REGISTER", "NETDEV_UNREGISTER", "NETDEV_CHANGENAME", "NETDEV_UP",
   "NETDEV_CHANGEMTU"}

NoDevlist == [ev_type |-> "none", dev_attr |-> "none"]

MutNetdevEventUpAsNewdev(event) ==
  CASE event \in {"NETDEV_REGISTER", "NETDEV_UP"}
         -> [ev_type |-> "EVENT_NEWDEV", dev_attr |-> "NEWDEV_DEV"]
    [] event = "NETDEV_UNREGISTER"
         -> [ev_type |-> "EVENT_DELDEV", dev_attr |-> "DELDEV_DEV"]
    [] event = "NETDEV_CHANGENAME"
         -> [ev_type |-> "EVENT_RENAMEDEV", dev_attr |-> "RENAMEDEV_DEV"]
    [] OTHER -> NoDevlist

\* ethnl_netdev_event(): the arguments of ethnl_notify_devlist() for the
\* three events of the switch, no call for any other event
ethnl_netdev_event(event) ==
  CASE event = "NETDEV_REGISTER"
         -> [ev_type |-> "EVENT_NEWDEV", dev_attr |-> "NEWDEV_DEV"]
    [] event = "NETDEV_UNREGISTER"
         -> [ev_type |-> "EVENT_DELDEV", dev_attr |-> "DELDEV_DEV"]
    [] event = "NETDEV_CHANGENAME"
         -> [ev_type |-> "EVENT_RENAMEDEV", dev_attr |-> "RENAMEDEV_DEV"]
    [] OTHER -> NoDevlist

\* dev_notify_size(): the event nest around the device identification
dev_notify_size == nla_total_size(dev_ident_size)

\* the ETHNL_CMD_EVENT message ethnl_notify_devlist() builds: the nest of
\* the event type holding the device nest written by ethnl_fill_dev()
devlist_msg(dev, ev_type, dev_attr) ==
  [cmd |-> "ETHNL_CMD_EVENT", dev |-> dev,
   payload |-> ev_type :> (dev_attr :> [DEV_INDEX |-> dev, DEV_NAME |-> dev])]

\* ethnl_notify_devlist(): the message is built in a buffer of
\* dev_notify_size() bytes and multicast; when the buffer cannot be
\* allocated or a put finds no room the buffer is freed and nothing is sent.
ethnl_notify_devlist(bc, dev, ev_type, dev_attr, alloc_ok) ==
  IF ~alloc_ok THEN [bcast |-> bc, rskb |-> "none"]
  ELSE IF NLA_HDRLEN + ethnl_fill_dev(dev) > dev_notify_size
  THEN [bcast |-> bc, rskb |-> "freed"]
  ELSE [bcast |-> Append(bc, devlist_msg(dev, ev_type, dev_attr)),
        rskb |-> "sent"]

\* One call of the notifier ethnl_netdev_event() for an event of a device;
\* the call returns NOTIFY_DONE.  The call's record holds the event in ops
\* and what became of the message buffer in rskb.
NetdevEvent(r) ==
  /\ req[r].pc = "idle"
  /\ \E event \in NetdevEvents, dev \in Devs, alloc_ok \in BOOLEAN :
       LET args == ethnl_netdev_event(event)
           n == IF args = NoDevlist THEN [bcast |-> bcast, rskb |-> "none"]
                ELSE ethnl_notify_devlist(bcast, dev, args.ev_type,
                                          args.dev_attr, alloc_ok)
       IN /\ bcast' = n.bcast
          /\ req' = [req EXCEPT ![r] =
               [@ EXCEPT !.kind = "netdev_event", !.ops = event,
                         !.dev = dev, !.rskb = n.rskb, !.ret = 0,
                         !.pc = "done"]]
  /\ UNCHANGED <<refcnt, present, prof, hw, dev_index_head, rtnl, warned>>

InitEvent == InitWith(DefaultHw, DefaultProf)

NextEvent == \E r \in Reqs : NetdevEvent(r)

SpecEvent == InitEvent /\ [][NextEvent]_vars

\* ------------------------------------------- claims about device events
\* the attribute of the event nest and of the device nest for each event
\* that is announced
EventAttrs ==
  [NETDEV_REGISTER |-> <<"EVENT_NEWDEV", "NEWDEV_DEV">>,
   NETDEV_UNREGISTER |-> <<"EVENT_DELDEV", "DELDEV_DEV">>,
   NETDEV_CHANGENAME |-> <<"EVENT_RENAMEDEV", "RENAMEDEV_DEV">>]

\* the notifier calls that have returned
EventsDone == {r \in Reqs : req[r].kind = "netdev_event" /\ req[r].pc = "done"}

\* the message i of the multicast log announces the event of call r
Announces(i, r) ==
  /\ bcast[i].cmd = "ETHNL_CMD_EVENT"
  /\ DOMAIN bcast[i].payload = {EventAttrs[req[r].ops][1]}
  /\ LET nest == bcast[i].payload[EventAttrs[req[r].ops][1]]
     IN /\ DOMAIN nest = {EventAttrs[req[r].ops][2]}
        /\ nest[EventAttrs[req[r].ops][2]]
             = [DEV_INDEX |-> req[r].dev, DEV_NAME |-> req[r].dev]

\* C30: the messages multicast are, one for one, the registration,
\* de-registration and rename events whose message could be built; each
\* holds nothing but the nest of its event type around the device nest with
\* the index and the name; an event of another kind, and an event whose
\* buffer could not be allocated, sent nothing.
C30_DeviceEventsAreAnnounced ==
  /\ \A r \in EventsDone :
       /\ req[r].rskb = "sent" <=> (/\ req[r].ops \in DOMAIN EventAttrs
                                    /\ req[r].rskb # "none")
       /\ req[r].ops \notin DOMAIN EventAttrs => req[r].rskb = "none"
       /\ req[r].rskb = "sent" => \E i \in DOMAIN bcast : Announces(i, r)
       /\ req[r].ret = 0
  /\ Len(bcast) = Cardinality({r \in EventsDone : req[r].rskb = "sent"})
  /\ \A i \in DOMAIN bcast :
       \E r \in EventsDone : req[r].rskb = "sent" /\ Announces(i, r)

\* a rename of device 2 was announced after an event that is not announced
\* and sent nothing
C30_Witness ==
  /\ EventsDone = Reqs
  /\ req[1].ops = "NETDEV_UP"
  /\ req[2].ops = "NETDEV_CHANGENAME"
  /\ req[2].dev = 2
  /\ Len(bcast) = 1
  /\ Announces(1, 2)

\* ------------------------------- claims about the steps of ethnl_get_doit()
\* the place of step s in the trace t, 0 when it was not taken
StepAt(t, s) ==
  IF \E i \in DOMAIN t : t[i] = s
  THEN CHOOSE i \in DOMAIN t : t[i] = s /\ \A j \in DOMAIN t : t[j] = s => i <= j
  ELSE 0

\* step a, if taken, was taken after step b was
TakenAfter(t, a, b) ==
  StepAt(t, a) > 0 => (StepAt(t, b) > 0 /\ StepAt(t, b) < StepAt(t, a))

\* step a, if taken, was taken before any rtnl_unlock
TakenLocked(t, a) ==
  StepAt(t, a) > 0
    => /\ TakenAfter(t, a, "rtnl_lock")
       /\ StepAt(t, "rtnl_unlock") > 0 => StepAt(t, a) < StepAt(t, "rtnl_unlock")

\* C31: ethnl_get_doit takes its steps in the order parse_request, lock,
\* prepare_data, reply_size, fill_reply, unlock, send; prepare_data,
\* reply_size and fill_reply run under the lock, each step runs only when
\* every earlier step succeeded, and the reply is sent after the unlock.
C31_DoitStepsInOrder ==
  \A r \in Reqs :
    req[r].kind = "get_doit"
      => LET t == req[r].trace
         IN /\ TakenAfter(t, "rtnl_lock", "parse_request")
            /\ TakenAfter(t, "prepare_data", "rtnl_lock")
            /\ TakenAfter(t, "reply_size", "prepare_data")
            /\ TakenAfter(t, "fill_reply", "reply_size")
            /\ TakenAfter(t, "genlmsg_reply", "fill_reply")
            /\ TakenAfter(t, "genlmsg_reply", "rtnl_unlock")
            /\ TakenLocked(t, "prepare_data")
            /\ TakenLocked(t, "reply_size")
            /\ TakenLocked(t, "fill_reply")
            /\ StepAt(t, "rtnl_lock") > 0 => req[r].got.ret = 0
            /\ StepAt(t, "reply_size") > 0
                 => ethnl_before_ops(prof[req[r].dev]) >= 0
            /\ StepAt(t, "fill_reply") > 0 => req[r].size_ret = 0
            /\ StepAt(t, "genlmsg_reply") > 0
                 => req[r].ret = 0 /\ req[r].size_ret = 0

\* ------------------------------------------- two SET requests in a row
\* requests that ask for what the device in its default state already has,
\* requests that change it, and requests with an attribute the policy rejects
TwiceSettingsMsgs ==
  {("SETTINGS_DEV" :> Dev1) @@ m :
     m \in {[SETTINGS_LINK_MODES |-> [LINKMODES_SPEED |-> 1000]],
            [SETTINGS_LINK_MODES |->
               [LINKMODES_OURS |-> [value |-> {1, 3}, mask |-> {1, 3}]]],
            [SETTINGS_LINK_INFO |-> [LINKINFO_PORT |-> 0]],
            [SETTINGS_LINK_INFO |-> [LINKINFO_PORT |-> MaxVal],
             SETTINGS_WOL |-> [WOL_SOPASS |-> MaxVal]],
            [SETTINGS_LINK_INFO |-> [LINKINFO_PORT |-> 0],
             SETTINGS_LINK_MODES |-> [LINKMODES_AUTONEG |-> 1],
             SETTINGS_WOL |->
               [WOL_SOPASS |-> 0,
                WOL_MODES |-> [value |-> {"WAKE_MAGIC"},
                               selector |-> {"WAKE_MAGIC"}]]],
            [SETTINGS_WOL |-> [WOL_SOPASS |-> 0, WOL_UNSPEC |-> 0]]}}

TwiceParamsMsgs ==
  {("PARAMS_DEV" :> Dev1) @@ m :
     m \in {[PARAMS_RING |-> [RING_RX_PENDING |-> 0]],
            [PARAMS_RING |-> [RING_TX_PENDING |-> MaxVal],
             PARAMS_COALESCE |-> CoalesceNest1],
            [PARAMS_PAUSE |-> PauseNest1,
             PARAMS_CHANNELS |-> [CHANNELS_RX_COUNT |-> MaxVal]],
            [PARAMS_RING |->
               [RING_RX_PENDING |-> 0, RING_RX_MAX_PENDING |-> MaxVal]]}}

TwiceProfiles ==
  {DefaultProf,
   [DefaultProf EXCEPT !.missing = {"get_wol", "get_pauseparam"}],
   [DefaultProf EXCEPT !.failing = {"set_wol", "set_ringparam"}],
   [DefaultProf EXCEPT !.begin = EBUSY]}

InitSetTwice == \E p \in TwiceProfiles : InitWith(DefaultHw, p)

NextSetTwice ==
  \E r \in Reqs :
    \/ SetStart(r, "set_settings", TwiceSettingsMsgs)
    \/ SetStart(r, "set_params", TwiceParamsMsgs)
    \/ SetLock(r)
    \/ SetUpdate(r)
    \/ SetNotify(r)
    \/ SetUnlock(r)

SpecSetTwice == InitSetTwice /\ [][NextSetTwice]_vars

\* ----------------------------------- claims about a SET that changes nothing
\* the nests of a SET message and the attributes the update helpers read
SetNests ==
  {"SETTINGS_LINK_INFO", "SETTINGS_LINK_MODES", "SETTINGS_WOL",
   "PARAMS_COALESCE", "PARAMS_RING", "PARAMS_PAUSE", "PARAMS_CHANNELS"}

\* the device's current value of attribute a of a nest
CurrentOf(h, a) ==
  CASE a = "LINKINFO_PORT" -> h.ks.port
    [] a = "LINKINFO_PHYADDR" -> h.ks.phy_address
    [] a = "LINKINFO_TP_MDIX_CTRL" -> h.ks.eth_tp_mdix_ctrl
    [] a = "LINKMODES_AUTONEG" -> h.ks.autoneg
    [] a = "LINKMODES_SPEED" -> h.ks.speed
    [] a = "LINKMODES_DUPLEX" -> h.ks.duplex
    [] a = "WOL_SOPASS" -> h.wol.sopass
    [] a = "RING_RX_PENDING" -> h.ring.rx_pending
    [] a = "RING_RX_MINI_PENDING" -> h.ring.rx_mini_pending
    [] a = "RING_RX_JUMBO_PENDING" -> h.ring.rx_jumbo_pending
    [] a = "RING_TX_PENDING" -> h.ring.tx_pending
    [] a = "PAUSE_AUTONEG" -> h.pause.autoneg
    [] a = "PAUSE_RX" -> h.pause.rx_pause
    [] a = "PAUSE_TX" -> h.pause.tx_pause
    [] a = "CHANNELS_RX_COUNT" -> h.channels.rx_count
    [] a = "CHANNELS_TX_COUNT" -> h.channels.tx_count
    [] a = "CHANNELS_OTHER_COUNT" -> h.channels.other_count
    [] a = "CHANNELS_COMBINED_COUNT" -> h.channels.combined_count
    [] OTHER -> h.coalesce[a]

\* the attributes of the nests that a policy rejects
RejectedAttrs ==
  set_linkinfo_policy \cup set_linkmodes_policy \cup set_wol_policy
  \cup coalesce_policy \cup ring_policy \cup pause_policy \cup channels_policy

\* the value v supplied for attribute a is the one the device has
SameAsCurrent(h, a, v) ==
  CASE a = "LINKMODES_OURS"
         -> v.value \cap v.mask = h.ks.advertising \cap v.mask
    [] a = "WOL_MODES"
         -> v.value \cap v.selector = h.wol.wolopts \cap v.selector
    [] a \in coalesce_bool -> Bool(v) = Bool(h.coalesce[a])
    [] OTHER -> v = CurrentOf(h, a)

\* every value the message supplies is the one the device has
SuppliedEqualsCurrent(h, msg) ==
  \A n \in DOMAIN msg \cap SetNests :
    \A a \in DOMAIN msg[n] \ RejectedAttrs :
      SameAsCurrent(h, a, msg[n][a])

\* the message makes update_link_modes() derive the advertised modes from
\* the speed or duplex, and the derived modes are not the advertised ones
DerivationChanges(h, msg) ==
  /\ Has(msg, "SETTINGS_LINK_MODES")
  /\ DerivationDue(h.ks, msg["SETTINGS_LINK_MODES"])
  /\ ExpectedAdvertising(h.ks, msg["SETTINGS_LINK_MODES"]) # h.ks.advertising

\* The request cannot get as far as comparing all its values: begin() fails,
\* a nest has an attribute its policy rejects, or an operation of a supplied
\* category is missing or the get operation fails.
RejectedEarly(p, msg) ==
  LET bad(n, policy) == Has(msg, n) /\ DOMAIN msg[n] \cap policy # {}
      lacks(n, ops) == Has(msg, n) /\ ops \cap p.missing # {}
      fails(n, op) == Has(msg, n) /\ op \in p.failing
  IN \/ ethnl_before_ops(p) < 0
     \/ bad("SETTINGS_LINK_INFO", set_linkinfo_policy)
     \/ bad("SETTINGS_LINK_MODES", set_linkmodes_policy)
     \/ bad("SETTINGS_WOL", set_wol_policy)
     \/ bad("PARAMS_COALESCE", coalesce_policy)
     \/ bad("PARAMS_RING", ring_policy)
     \/ bad("PARAMS_PAUSE", pause_policy)
     \/ bad("PARAMS_CHANNELS", channels_policy)
     \/ lacks("SETTINGS_LINK_INFO", {"get_link_ksettings"})
     \/ lacks("SETTINGS_LINK_MODES", {"get_link_ksettings"})
     \/ fails("SETTINGS_LINK_INFO", "get_link_ksettings")
     \/ fails("SETTINGS_LINK_MODES", "get_link_ksettings")
     \/ lacks("SETTINGS_WOL", {"get_wol"})
     \/ fails("SETTINGS_WOL", "get_wol")
     \/ lacks("PARAMS_COALESCE", {"get_coalesce", "set_coalesce"})
     \/ fails("PARAMS_COALESCE", "get_coalesce")
     \/ lacks("PARAMS_RING", {"get_ringparam", "set_ringparam"})
     \/ lacks("PARAMS_PAUSE", {"get_pauseparam", "set_pauseparam"})
     \/ lacks("PARAMS_CHANNELS", {"get_channels", "set_channels"})

\* request r is a SET that took the lock and has returned
SetDone(r) ==
  /\ req[r].kind \in SetKinds
  /\ req[r].pc = "done"
  /\ req[r].step >= 1

\* r made no set call, asked for no notification and left the device alone
ChangedNothing(r) ==
  /\ req[r].calls = <<>>
  /\ req[r].req_mask = {}
  /\ req[r].h1 = req[r].h0

\* the SET s was sent again, as r, to the device as s had left it
SentAgain(s, r) ==
  /\ s # r
  /\ SetDone(s) /\ SetDone(r)
  /\ req[s].kind = req[r].kind
  /\ req[s].msg = req[r].msg
  /\ req[s].ret = 0
  /\ req[r].h0 = req[s].h1

\* C32 as stated: a SET whose supplied values all equal the device's makes
\* no set call, asks for no notification and succeeds, unless it is
\* rejected before the values are compared.
C32_EqualValuesChangeNothing ==
  \A r \in Reqs :
    (SetDone(r) /\ SuppliedEqualsCurrent(req[r].h0, req[r].msg))
      => /\ ChangedNothing(r)
         /\ req[r].ret = 0 \/ RejectedEarly(prof[req[r].dev], req[r].msg)

\* C32: a SET whose supplied values all equal the device's, and whose speed
\* or duplex does not make update_link_modes derive other advertised modes
\* than the device has, makes no set call, asks for no notification and
\* succeeds unless it is rejected before the values are compared; the same
\* successful SET sent a second time to the device as the first left it
\* changes nothing and notifies nobody.
C32_NoChangeAskedChangesNothing ==
  \A r \in Reqs :
    /\ (/\ SetDone(r)
        /\ SuppliedEqualsCurrent(req[r].h0, req[r].msg)
        /\ ~DerivationChanges(req[r].h0, req[r].msg))
         => /\ ChangedNothing(r)
            /\ req[r].ret = 0 \/ RejectedEarly(prof[req[r].dev], req[r].msg)
    /\ \A s \in Reqs :
         SentAgain(s, r) => ChangedNothing(r) /\ req[r].ret = 0

\* a SET that changed the port and the password, sent again: the second one
\* found its values on the device and changed nothing
C32_Witness ==
  /\ SentAgain(1, 2)
  /\ Len(req[1].calls) = 2
  /\ req[1].req_mask = {"LINKINFO", "WOL"}
  /\ req[1].h1 # req[1].h0
  /\ SuppliedEqualsCurrent(req[2].h0, req[2].msg)
  /\ req[2].calls = <<>>

\* ------------------------------------------- claims about the lock's pairing
\* the handler of request r has returned
Returned(r) ==
  \/ req[r].kind \in SetKinds \cup {"get_doit"} /\ req[r].pc = "done"
  \/ req[r].kind = "get_dump" /\ req[r].pc # "dump_locked"

\* C33: ethnl_get_doit, ethnl_get_dump_one, ethnl_set_settings and
\* ethnl_set_params call rtnl_unlock once for each rtnl_lock, never without
\* holding the lock, and have released it when they return, on every path.
C33_LockReleasedOncePerTake ==
  \A r \in Reqs :
    /\ req[r].held \in {0, 1}
    /\ req[r].held = 1 <=> rtnl = r
    /\ Returned(r) => req[r].held = 0 /\ rtnl # r

\* a GET that left by an error exit after it had locked and a SET that
\* failed under the lock have both returned it
C33_Witness ==
  \E g, s \in Reqs :
    /\ req[g].kind = "get_doit" /\ req[g].pc = "done"
    /\ StepAt(req[g].trace, "rtnl_unlock") > 0 /\ req[g].ret < 0
    /\ req[s].kind \in SetKinds /\ req[s].pc = "done"
    /\ req[s].step >= 1 /\ req[s].ret < 0
    /\ rtnl = 0

\* ------------------------------------ a dump over devices that differ
\* Device d reports its own port, password, coalescing delay and ring size;
\* device 1 has a link partner that advertises.  One device may lack some
\* get operations.
DataHw(d) ==
  [DefaultHw EXCEPT
     !.ks.port = d, !.ks.lp_advertising = IF d = 1 THEN {1, 3} ELSE {},
     !.wol.sopass = d, !.link = d % 2,
     !.coalesce.COALESCE_RX_USECS = d,
     !.ring.rx_max_pending = NDev, !.ring.rx_pending = d,
     !.pause.rx_pause = d % 2,
     !.channels.max_rx = NDev, !.channels.rx_count = d]

DataProfiles ==
  {DefaultProf,
   [DefaultProf EXCEPT !.missing = {"get_link_ksettings", "get_wol"}],
   [DefaultProf EXCEPT !.failing = {"get_link_ksettings"},
                       !.missing = {"get_link"}],
   [DefaultProf EXCEPT !.missing = {"get_coalesce", "get_ringparam",
                                    "get_pauseparam", "get_channels"}],
   [DefaultProf EXCEPT !.begin = EOPNOTSUPP]}

DataSettingsMsgs ==
  {NoMsg,
   [SETTINGS_INFOMASK |-> {"LINKINFO", "WOL"}],
   [SETTINGS_COMPACT |-> TRUE, SETTINGS_INFOMASK |-> {"LINKMODES"}]}

DataParamsMsgs ==
  {NoMsg, [PARAMS_COMPACT |-> TRUE, PARAMS_INFOMASK |-> {"RING", "PAUSE"}]}

InitDumpData ==
  /\ refcnt = [d \in Devs |-> 1]
  /\ present = [d \in Devs |-> TRUE]
  /\ \E p \in DataProfiles, d1 \in Devs :
       prof = [d \in Devs |-> IF d = d1 THEN p ELSE DefaultProf]
  /\ hw = [d \in Devs |-> DataHw(d)]
  /\ dev_index_head \in Registries
  /\ rtnl = 0
  /\ req = [r \in Reqs |-> IdleReq]
  /\ bcast = <<>>
  /\ warned = {}

NextDumpData ==
  \/ DumpStart(1, "settings", DataSettingsMsgs, BOOLEAN)
  \/ DumpStart(1, "params", DataParamsMsgs, {FALSE})
  \/ DumpitBegin(1)
  \/ DumpNext(1)
  \/ DumpLock(1)
  \/ DumpOne(1)
  \/ DumpReturn(1)

SpecDumpData == InitDumpData /\ [][NextDumpData]_vars

\* ------------------------------------- claims about the dump's request data
\* request r is a dump session whose ethnl_get_start() succeeded
InSession(r) ==
  /\ req[r].kind = "get_dump"
  /\ req[r].data = "live"
  /\ req[r].pc # "done"

\* the requested mask and the compact flag the message of r asks for
AskedMask(r) ==
  LET a == IF req[r].ops = "settings" THEN "SETTINGS_INFOMASK"
           ELSE "PARAMS_INFOMASK"
      all == IF req[r].ops = "settings" THEN ETHTOOL_IM_SETTINGS_ALL
             ELSE ETHTOOL_IM_PARAMS_ALL
  IN IF Has(req[r].msg, a) /\ req[r].msg[a] # {} THEN req[r].msg[a] ELSE all

AskedCompact(r) ==
  Has(req[r].msg, IF req[r].ops = "settings" THEN "SETTINGS_COMPACT"
                  ELSE "PARAMS_COMPACT")

\* the device ethnl_get_dump_one() of r is working on
DumpDev(r) == dev_index_head[req[r].h][req[r].idx + 1]

\* the data prepare_data() gathers for device d alone
FreshData(r, d) ==
  prepare_data(req[r].ops, req[r].req_info, ZeroReplyData(d), prof[d],
               hw[d]).rd

\* the scratch of r holds what was gathered for the device it last
\* described with success, and nothing else
HoldsOnlyLast(r) ==
  LET last == req[r].good[Len(req[r].good)]
  IN /\ [req[r].rd EXCEPT !.dev = last] = FreshData(r, last)
     /\ fill_reply(req[r].ops, req[r].req_info, req[r].rd)
          = fill_reply(req[r].ops, req[r].req_info, FreshData(r, last))

\* the persistent part of the request data of r stays as it is
PersistentKept(r) ==
  (InSession(r) /\ req'[r].pc # "done") => req'[r].req_info = req[r].req_info

\* C34: in a dump, when prepare_data starts for a device the scratch is zero
\* but for that device and the persistent part is what parse_request set at
\* the start of the session and has not changed since; the data a device's
\* reply is filled from are those gathered for that device alone; after
\* each device the scratch's device is cleared.
C34_ScratchResetPerDevice ==
  /\ [](\A r \in Reqs :
          InSession(r)
            => /\ req[r].req_info.dev = NULL
               /\ req[r].req_info.req_mask = AskedMask(r)
               /\ req[r].req_info.compact = AskedCompact(r)
               /\ req[r].pc = "dump_locked"
                    => req[r].rd = ZeroReplyData(DumpDev(r))
               /\ req[r].pc # "dump_locked" => req[r].rd.dev = NULL
               /\ (/\ req[r].pc \in {"dump_loop", "dump_one", "dump_ret"}
                   /\ req[r].one_ret = 0
                   /\ req[r].good # <<>>)
                    => HoldsOnlyLast(r))
  /\ [][\A r \in Reqs : PersistentKept(r)]_vars

\* the second device of a dump is about to be prepared, the first one's
\* data having been gathered and written
C34_Witness ==
  /\ InSession(1)
  /\ req[1].pc = "dump_locked"
  /\ Len(req[1].good) = 1
  /\ req[1].good[1] # DumpDev(1)
  /\ req[1].rd = ZeroReplyData(DumpDev(1))
  /\ req[1].req_info.privileged

\* ------------------------------------------ the fill helpers on a buffer
\* the largest buffer tried, in words of 4 bytes
MaxCapWords == 48

FillCaps == {4 * k : k \in 0..MaxCapWords}

\* what the caller wrote before it called the helper: nothing, or the
\* device nest of ethnl_fill_dev()
FillStart(cap, d) ==
  {[cap |-> cap, len |-> 0, attrs |-> <<>>],
   [cap |-> cap + ethnl_fill_dev(d), len |-> ethnl_fill_dev(d),
    attrs |-> <<<<"DEV", d>>>>]}

FillInputs ==
  [bits : {12, 20}, lpm_empty : BOOLEAN, link : {-1, 0, 1},
   privileged : BOOLEAN]

\* the inputs that make no difference to the helper are fixed
FillInputsOf(helper) ==
  {in \in FillInputs :
     /\ helper # "fill_link_modes" => (in.bits = 12 /\ ~in.lpm_empty)
     /\ helper # "fill_link_state" => in.link = 1
     /\ helper # "fill_wolinfo" => ~in.privileged}

\* a fill helper is called with the data of device d on a buffer with cap
\* bytes of room
FillCall(r, helper) ==
  /\ req[r].pc = "idle"
  /\ \E d \in Devs, cap \in FillCaps, in \in FillInputsOf(helper) :
       \E skb \in FillStart(cap, d) :
         LET out == fill_helper(helper, skb, hw[d], in)
         IN req' = [req EXCEPT
                      ![r].pc = "done", ![r].kind = "fill", ![r].dev = d,
                      ![r].ret = out.ret,
                      ![r].fill = [helper |-> helper, skb0 |-> skb,
                                   skb |-> out.skb, ret |-> out.ret]]
  /\ UNCHANGED <<refcnt, present, prof, hw, dev_index_head, rtnl, bcast,
                 warned>>

InitFill ==
  /\ refcnt = [d \in Devs |-> 1]
  /\ present = [d \in Devs |-> TRUE]
  /\ prof = [d \in Devs |-> DefaultProf]
  /\ hw = [d \in Devs |-> DataHw(d)]
  /\ dev_index_head = [b \in 0..(NETDEV_HASHENTRIES - 1) |->
                         IF b = 0 THEN [i \in 1..NDev |-> i] ELSE <<>>]
  /\ rtnl = 0
  /\ req = [r \in Reqs |-> IdleReq]
  /\ bcast = <<>>
  /\ warned = {}

NextFill ==
  \/ FillCall(1, "fill_link_info")
  \/ FillCall(1, "fill_link_modes")
  \/ FillCall(1, "fill_link_state")
  \/ FillCall(1, "fill_wolinfo")
  \/ FillCall(1, "fill_coalesce")
  \/ FillCall(1, "fill_ring")
  \/ FillCall(1, "fill_pause")
  \/ FillCall(1, "fill_channels")

SpecFill == InitFill /\ [][NextFill]_vars

\* the helper called by r failed after it had opened its nest
FailedInNest(r) ==
  /\ req[r].kind = "fill"
  /\ req[r].fill.ret < 0
  /\ req[r].fill.skb0.len + NLA_HDRLEN <= req[r].fill.skb0.cap

\* C35: a fill helper that fails after it opened its nest leaves the buffer
\* with the length and the content it had when the helper was called.
C35_FailedFillLeavesBuffer ==
  \A r \in Reqs : FailedInNest(r) => req[r].fill.skb = req[r].fill.skb0

\* the same of every helper but fill_channels
FailedFillLeavesBufferButChannels ==
  \A r \in Reqs :
    (FailedInNest(r) /\ req[r].fill.helper # "fill_channels")
      => req[r].fill.skb = req[r].fill.skb0

\* a helper that succeeded wrote its nest and all its attributes
FilledNestIsWhole ==
  \A r \in Reqs :
    (req[r].kind = "fill" /\ req[r].fill.ret = 0)
      => Len(req[r].fill.skb.attrs) > Len(req[r].fill.skb0.attrs)

\* --------------------------- claims about the error exits of ethnl_get_doit()
\* C36: when reply_size returns a negative error in ethnl_get_doit the
\* request fails: ethnl_reply_init is not called with the negative length,
\* fill_reply is not called and no reply is sent.
C36_NegativeSizeAborts ==
  \A r \in Reqs :
    (req[r].kind = "get_doit" /\ req[r].pc = "done" /\ req[r].size_ret < 0)
      => /\ req[r].ret < 0
         /\ StepAt(req[r].trace, "reply_init") = 0
         /\ StepAt(req[r].trace, "fill_reply") = 0
         /\ StepAt(req[r].trace, "genlmsg_reply") = 0
         /\ req[r].rskb = "none"

\* C37: when parse_request fails in ethnl_get_doit because the device could
\* not be resolved, ethnl_get_doit returns the error code of the resolver.
C37_ParseErrorReturnedUnchanged ==
  \A r \in Reqs :
    (req[r].kind = "get_doit" /\ req[r].pc = "done" /\ req[r].got.ret < 0)
      => req[r].ret = req[r].got.ret

\* C38: ethnl_get_doit does not read req_info->dev after
\* ethnl_free_get_data() freed the request data.
C38_NoReadAfterFree ==
  \A r \in Reqs :
    req[r].kind = "get_doit"
      => \A i, j \in DOMAIN req[r].trace :
           (req[r].trace[i] = "free_get_data" /\ i < j)
             => req[r].trace[j] # "req_info->dev"

\* ----------------------------- a SET of either kind on a device that may fail
InitSetFail == InitSettings \/ InitParams

NextSetFail ==
  \/ SetStart(1, "set_settings", SettingsMsgs)
  \/ SetStart(1, "set_params", ParamsMsgs)
  \/ SetLock(1)
  \/ SetUpdate(1)
  \/ SetNotify(1)
  \/ SetUnlock(1)

SpecSetFail == InitSetFail /\ [][NextSetFail]_vars

\* ------------------------------- claims about the notification a SET asks for
\* request r is a SET that has passed out_ops
PastOutOps(r) ==
  /\ req[r].kind \in SetKinds
  /\ req[r].pc \in {"out_rtnl", "done"}

\* the state of the device of r when r passed out_ops
HwAtOutOps(r) == IF req[r].pc = "done" THEN req[r].h1 ELSE hw[req[r].dev]

\* the categories in which the device differs between states a and b
CategoriesChanged(a, b) ==
  {c \in ETHTOOL_IM_SETTINGS_ALL \cup ETHTOOL_IM_PARAMS_ALL :
     CASE c = "LINKINFO" ->
            \/ a.ks.port # b.ks.port
            \/ a.ks.phy_address # b.ks.phy_address
            \/ a.ks.eth_tp_mdix_ctrl # b.ks.eth_tp_mdix_ctrl
       [] c = "LINKMODES" ->
            \/ a.ks.autoneg # b.ks.autoneg
            \/ a.ks.advertising # b.ks.advertising
            \/ a.ks.speed # b.ks.speed
            \/ a.ks.duplex # b.ks.duplex
       [] c = "WOL" -> a.wol # b.wol
       [] c = "COALESCE" -> a.coalesce # b.coalesce
       [] c = "RING" -> a.ring # b.ring
       [] c = "PAUSE" -> a.pause # b.pause
       [] c = "CHANNELS" -> a.channels # b.channels
       [] OTHER -> FALSE}

\* the categories r committed to its device
Committed(r) ==
  IF req[r].dev = NULL THEN {}
  ELSE CategoriesChanged(req[r].h0, HwAtOutOps(r))

\* the categories of the update at which r failed
FailedCategories(r) ==
  IF req[r].ret >= 0 \/ req[r].step = 0 THEN {}
  ELSE IF req[r].kind = "set_params" THEN {params_cats[req[r].step]}
  ELSE IF req[r].step = 1 THEN {"LINKINFO", "LINKMODES"}
  ELSE {"WOL"}

\* C39: a SET that has passed out_ops, with or without an error, has called
\* ethtool_notify() for exactly the categories it committed to the device,
\* while it held the lock; it made no call when it committed none, and a
\* category whose update failed is not in the mask.
C39_CommittedAreNotified ==
  \A r \in Reqs :
    PastOutOps(r)
      => /\ req[r].notify.mask = Committed(r)
         /\ req[r].notify.called <=> Committed(r) # {}
         /\ req[r].notify.called => req[r].notify.locked
         /\ req[r].notify.mask \cap FailedCategories(r) = {}
         /\ req[r].notify.mask = req[r].req_mask

\* a SET of device parameters committed its first categories, failed at a
\* later one and has returned the error
C39_Witness ==
  /\ req[1].kind = "set_params"
  /\ req[1].pc = "done"
  /\ req[1].ret < 0
  /\ req[1].step > 1
  /\ Committed(1) # {}
  /\ req[1].notify.called
  /\ req[1].notify.mask = Committed(1)

\* the same of a SET of link settings that failed at wake-on-LAN
SettingsFailedAtWolNotified ==
  /\ req[1].kind = "set_settings"
  /\ req[1].pc = "done"
  /\ req[1].ret < 0
  /\ req[1].step = 2
  /\ Committed(1) # {}
  /\ req[1].notify.called

\* ------------------------------------------ a dump session that runs on
\* netlink_dump() calls ethnl_get_dumpit() again after every call that
\* returned a positive length, and each loop of the handler goes on; no
\* other request contends for the lock.  The session dumps the link
\* settings of all devices.
SpecDumpFair ==
  /\ InitDump
  /\ [][DumpSteps]_vars
  /\ WF_vars(DumpitBegin(1))
  /\ WF_vars(DumpNext(1))
  /\ WF_vars(DumpLock(1))
  /\ WF_vars(DumpOne(1))
  /\ WF_vars(DumpReturn(1))

\* cursor a is before cursor b, in lexicographic order
CursorBefore(a, b) ==
  \/ a.args2 < b.args2
  \/ a.args2 = b.args2 /\ a.args3 < b.args3

\* a call of ethnl_get_dumpit() of session r has set its return value
DumpitReturns(r) ==
  /\ req[r].kind = "get_dump"
  /\ req[r].pc = "dump_ret"

\* C40: a call of ethnl_get_dumpit() that returns a positive length has
\* moved the cursor strictly forward; a call that put no message in its
\* buffer returns 0 or an error; a call that starts with the cursor past the
\* last bucket puts nothing in its buffer and returns 0; and every dump
\* session ends.
C40_DumpSessionEnds ==
  /\ [](\A r \in Reqs :
          DumpitReturns(r)
            => /\ req[r].ret > 0 => CursorBefore(req[r].prev, Cursor(r))
               /\ req[r].skb = <<>> => req[r].ret <= 0
               /\ req[r].prev.args2 >= NETDEV_HASHENTRIES
                    => (req[r].skb = <<>> /\ req[r].ret = 0))
  /\ \A r \in Reqs : (req[r].kind = "get_dump") ~> (req[r].pc = "done")

\* a session that put every device in its buffers has ended with a call
\* that started past the last bucket, put nothing in its buffer and
\* returned 0
C40_Witness ==
  /\ req[1].kind = "get_dump"
  /\ req[1].pc = "done"
  /\ req[1].ret = 0
  /\ req[1].prev.args2 >= NETDEV_HASHENTRIES
  /\ Len(req[1].out) = NDev
  /\ req[1].room = 0

====
